---- MODULE Spec2Model ----
(***************************************************************************)
(* Audio-reactive visualizer: the VisualizerManager, its Effect variants   *)
(* and the module-level audio state.                                       *)
(*                                                                         *)
(* The repository holds three revisions of the manager program:            *)
(*   "A"  src/unnamed/part_000 lines 1-781     (4 modes, early fireworks)  *)
(*   "B"  src/unnamed/part_000 lines 782-3370  (7 modes, try/catch)        *)
(*   "C"  src/AudioVisualizer/visualizer.js lines 1-1388 (5 modes)         *)
(* The variable rev says which one is running; it never changes.           *)
(* The rest of visualizer.js is a script without a manager (lines          *)
(* 1390-1674) and the class DancerEffect (lines 1677-1907), which no       *)
(* switchMode of the three revisions constructs.                           *)
(*                                                                         *)
(* Units: the clock now is performance.now() in ms; angles, band energies  *)
(* and opacities are fixed-point with 6 decimals (micro units); heights    *)
(* and velocities of rockets are in hundredths, those of particles and the *)
(* ages of bursts in thousandths.                                          *)
(*                                                                         *)
(* A resource is a geometry, material or texture object, named by the      *)
(* expression that holds it and a number: <<"sun.material", 0>>; the ones  *)
(* made by update take the least positive number not in use.               *)
(* It is allocated by its constructor call (or clone()) and released by a  *)
(* call of its dispose().  Material.dispose() does not release the         *)
(* textures the material refers to (three.js).                             *)
(***************************************************************************)
EXTENDS Integers, Sequences, FiniteSets, TLC

VARIABLES
    rev,            \* revision of the program that is running
    now,            \* performance.now(), ms
    scene,          \* THREE.Scene: children (groups, by instance), fog, rotation
    camera,         \* camera pose
    currentEffect,  \* manager.currentEffect: an instance id, or Null
    heap,           \* every Effect instance constructed so far, by id
    timers,         \* pending setTimeout callbacks
    audio,          \* module-level audio state and capture requests in flight
    frames,         \* animation-frame callbacks requested and not yet run
    view,           \* the window's size, camera.aspect, renderer and composer size
    inputs,         \* user inputs since the last frame
    lastCall        \* the handler that ran last and what it did, in order

vars == <<rev, now, scene, camera, currentEffect, heap, timers, audio, frames,
          view, inputs, lastCall>>

(***************************************************************************)
(* Bounds of the model.                                                    *)
(***************************************************************************)
MaxInstances == 3     \* Effect instances constructed in one run
PageLoadMs == 1000    \* performance.now() when the constructor runs
FrameMs == 16         \* clock advance between two animation frames
MaxFrames == 33       \* animation frames after the constructor's own
ClickEvery == 32      \* the user acts on every ClickEvery-th frame
MaxRockets == 1       \* rockets in flight in one fireworks instance
MaxBursts == 1        \* live bursts (and shockwaves) in one fireworks instance
MaxParticles == 1     \* live particles in one early fireworks instance
BurstParticles == 1   \* particles an explosion makes (stands for count)
MaxBolts == 3         \* live bolts in one lightning instance
MaxCount == 1         \* call counters saturate here
MaxAudioCalls == 2
MaxInputs == 3    \* startAudio calls in one run

Null == 0

Revisions == {"A", "B", "C"}

Min(a, b) == IF a < b THEN a ELSE b

Max(a, b) == IF a > b THEN a ELSE b

Bump(n) == Min(n + 1, MaxCount)

(***************************************************************************)
(* Math.sin on fixed-point micro-radians, result in micro units.  Taylor   *)
(* polynomial to the 7th power after reduction to the first quadrant; the  *)
(* higher powers are taken on milli-radians so that no product leaves the  *)
(* 32-bit range.                                                           *)
(***************************************************************************)
TwoPi == 6283185

SinQuadrant(y) ==
    LET ym == y \div 1000
        a  == (ym * ym) \div 1000
        b  == (a * a) \div 1000
        t3 == (a * ym) \div 6
        t5 == (b * ym * 25) \div 3
        t7 == ((((b * a) \div 1000) * ym) * 25) \div 126
    IN  y - t3 + (t5 \div 1000) - (t7 \div 1000)

Sin(x) ==
    LET r    == x % TwoPi
        half == TwoPi \div 2
        quar == TwoPi \div 4
    IN  IF r <= quar THEN SinQuadrant(r)
        ELSE IF r <= half THEN SinQuadrant(half - r)
        ELSE IF r <= half + quar THEN 0 - SinQuadrant(r - half)
        ELSE 0 - SinQuadrant(TwoPi - r)

(***************************************************************************)
(* Static resources and nodes of each Effect class: what init() allocates  *)
(* and adds to this.group, and what dispose() releases, in source order.   *)
(***************************************************************************)
R(name) == <<name, 0>>

RSet(names) == {R(n) : n \in names}

\* CosmicEffect of revisions A and C: one Points mesh.
CosmicEffect_init ==
    [alloc |-> RSet({"mesh.geometry", "mesh.material"}),
     nodes |-> RSet({"mesh"})]

CosmicEffect_dispose == <<"mesh.geometry", "mesh.material">>

\* CosmicEffect of revision B: galaxy, black hole, aurora, starfield and a
\* pool of 8 shooting stars cloned from one template geometry.
ShootingStarPool(n) == {<<"shootingStars.mesh.geometry", i>> : i \in 1..n}

CosmicGalaxy_init ==
    [alloc |-> RSet({"galaxyMesh.geometry", "galaxyMesh.material",
                     "eventHorizon.geometry", "eventHorizon.material",
                     "diskMesh.geometry", "diskMesh.material",
                     "auroraMesh.geometry", "auroraMesh.material",
                     "starMesh.geometry", "starMesh.material",
                     "initShootingStars.geometry", "shootingStarMaterial"})
               \cup ShootingStarPool(8),
     nodes |-> RSet({"galaxyMesh", "eventHorizon", "diskMesh", "auroraMesh",
                     "starMesh"})
               \cup {<<"shootingStars.mesh", i>> : i \in 1..8}]

CosmicGalaxy_dispose ==
    <<"galaxyMesh.geometry", "galaxyMesh.material",
      "eventHorizon.geometry", "eventHorizon.material",
      "diskMesh.geometry", "diskMesh.material",
      "auroraMesh.geometry", "auroraMesh.material",
      "starMesh.geometry", "starMesh.material",
      "shootingStars.mesh.geometry", "shootingStarMaterial">>

WaveEffect_init ==
    [alloc |-> RSet({"terrain.geometry", "terrain.material",
                     "sun.geometry", "sunTex", "sun.material",
                     "particles.geometry", "particles.material"}),
     nodes |-> RSet({"terrain", "sun", "particles"})]

WaveEffect_dispose ==
    <<"terrain.geometry", "terrain.material", "sun.geometry", "sun.material",
      "particles.geometry", "particles.material">>

LightShowEffect_init ==
    [alloc |-> RSet({"mesh.geometry", "mesh.material",
                     "particles.geometry", "particles.material"}),
     nodes |-> RSet({"mesh", "particles"})]

LightShowEffect_dispose ==
    <<"mesh.geometry", "mesh.material", "particles.geometry", "particles.material">>

\* FireworksEffect of revision A: one geometry and one material shared by
\* all particles, the material's map made by createParticleTexture().
FireworksEarly_init ==
    [alloc |-> RSet({"floor.geometry", "floor.material",
                     "stars.geometry", "stars.material",
                     "particleGeometry", "particleMaterial",
                     "particleMaterial.map"}),
     nodes |-> RSet({"floor", "stars"})]

FireworksEarly_dispose ==
    <<"particleGeometry", "particleMaterial", "floor.geometry", "floor.material",
      "stars.geometry", "stars.material">>

\* FireworksEffect of revisions B and C: four textures and four shared
\* materials; every burst and shockwave allocates in update.
FireworksEffect_init ==
    [alloc |-> RSet({"floor.geometry", "floor.material",
                     "stars.geometry", "stars.material",
                     "textures.dot", "textures.heart", "textures.star",
                     "textures.leaf", "materials.dot", "materials.heart",
                     "materials.star", "materials.leaf"}),
     nodes |-> RSet({"floor", "stars"})]

FireworksEffect_dispose ==
    <<"floor.geometry", "floor.material", "stars.geometry", "stars.material",
      "textures.dot", "textures.heart", "textures.star", "textures.leaf",
      "materials.dot", "materials.heart", "materials.star", "materials.leaf">>

\* LightningStormEffect: the constructor adds a PointLight, init() sets the
\* scene fog and builds aurora, clouds (with a CanvasTexture) and particles.
LightningStormEffect_init ==
    [alloc |-> RSet({"aurora.geometry", "aurora.material",
                     "cloudSystem.geometry", "cloudTex", "cloudSystem.material",
                     "pollen.geometry", "pollen.material",
                     "sparkles.geometry", "sparkles.material"}),
     nodes |-> RSet({"lightningLight", "aurora", "cloudSystem", "pollen",
                     "sparkles"})]

LightningStormEffect_dispose ==
    <<"cloudSystem.geometry", "cloudSystem.material", "aurora.geometry",
      "aurora.material", "pollen.geometry", "pollen.material",
      "sparkles.geometry", "sparkles.material">>

\* AudioReactorEffect: three rings share ringGeo and carry clones of ringMat;
\* the two grids share gridGeo and gridMat.
AudioReactorEffect_init ==
    [alloc |-> RSet({"core.geometry", "core.material", "ringGeo", "ringMat",
                     "gridGeo", "gridMat"})
               \cup {<<"rings.mesh.material", i>> : i \in 1..3},
     nodes |-> RSet({"core", "floorGrid", "ceilGrid"})
               \cup {<<"rings.mesh", i>> : i \in 1..3}]

AudioReactorEffect_dispose ==
    <<"core.geometry", "core.material", "ringGeo", "rings.mesh.material",
      "gridGeo", "gridMat", "gridGeo", "gridMat">>

\* MultiverseEffect: core, disk, aurora, two grids, starfield, a pool of 10
\* shooting stars; fireworks are allocated in update.
MultiverseEffect_init ==
    [alloc |-> RSet({"core.geometry", "core.material",
                     "diskMesh.geometry", "diskMesh.material",
                     "auroraMesh.geometry", "auroraMesh.material",
                     "gridGeo", "gridMat",
                     "starMesh.geometry", "starMesh.material",
                     "initShootingStars.geometry", "shootingStarMaterial"})
               \cup ShootingStarPool(10),
     nodes |-> RSet({"core", "diskMesh", "auroraMesh", "floorGrid", "ceilGrid",
                     "starMesh"})
               \cup {<<"shootingStars.mesh", i>> : i \in 1..10}]

MultiverseEffect_dispose ==
    <<"core.geometry", "core.material", "diskMesh.geometry", "diskMesh.material",
      "auroraMesh.geometry", "auroraMesh.material", "gridGeo", "gridMat",
      "gridGeo", "gridMat", "starMesh.geometry", "starMesh.material",
      "shootingStars.mesh.geometry", "shootingStarMaterial",
      "fireworks.mesh.geometry", "fireworks.mesh.material">>

Classes ==
    {"CosmicEffect", "CosmicGalaxy", "WaveEffect", "LightShowEffect",
     "FireworksEarly", "FireworksEffect", "LightningStormEffect",
     "AudioReactorEffect", "MultiverseEffect"}

InitOf(cls) ==
    CASE cls = "CosmicEffect" -> CosmicEffect_init
      [] cls = "CosmicGalaxy" -> CosmicGalaxy_init
      [] cls = "WaveEffect" -> WaveEffect_init
      [] cls = "LightShowEffect" -> LightShowEffect_init
      [] cls = "FireworksEarly" -> FireworksEarly_init
      [] cls = "FireworksEffect" -> FireworksEffect_init
      [] cls = "LightningStormEffect" -> LightningStormEffect_init
      [] cls = "AudioReactorEffect" -> AudioReactorEffect_init
      [] cls = "MultiverseEffect" -> MultiverseEffect_init

DisposeOf(cls) ==
    CASE cls = "CosmicEffect" -> CosmicEffect_dispose
      [] cls = "CosmicGalaxy" -> CosmicGalaxy_dispose
      [] cls = "WaveEffect" -> WaveEffect_dispose
      [] cls = "LightShowEffect" -> LightShowEffect_dispose
      [] cls = "FireworksEarly" -> FireworksEarly_dispose
      [] cls = "FireworksEffect" -> FireworksEffect_dispose
      [] cls = "LightningStormEffect" -> LightningStormEffect_dispose
      [] cls = "AudioReactorEffect" -> AudioReactorEffect_dispose
      [] cls = "MultiverseEffect" -> MultiverseEffect_dispose

(***************************************************************************)
(* An Effect instance.  live: resources allocated and not yet released;    *)
(* children: the nodes under this.group; the call counters saturate at     *)
(* MaxCount.  uTime stands for the transforms and shader uniforms that     *)
(* update writes on the instance's own nodes (the shader stage is opaque). *)
(***************************************************************************)
\* The size of the shooting-star pool that initShootingStars() builds.
PoolSize(cls) ==
    CASE cls = "CosmicGalaxy" -> 8
      [] cls = "MultiverseEffect" -> 10
      [] OTHER -> 0

NewInstance(cls) ==
    [cls |-> cls,
     live |-> InitOf(cls).alloc,
     children |-> InitOf(cls).nodes,
     disposeCalls |-> 0,
     updates |-> 0,
     updatesAfterDispose |-> 0,
     uTime |-> 0,
     lastTime |-> 0,
     rockets |-> <<>>,
     particles |-> <<>>,
     shockwaves |-> <<>>,
     bolts |-> <<>>,
     fireworks |-> <<>>,
     bands |-> [bass |-> 0, mid |-> 0, high |-> 0],
     shootingStars |-> [k \in 1..PoolSize(cls) |->
                           [active |-> FALSE, visible |-> FALSE,
                            progress |-> 0, speed |-> 0]],
     opacity |-> IF cls = "FireworksEffect"
                 THEN [m \in {"dot", "heart", "star", "leaf"} |-> 1000000]
                 ELSE <<>>]

NoFog == "null"

CosmicFog == "FogExp2(0x000000, 0.02)"

StormFog == "FogExp2(0x020008, 0.015)"

\* new XEffect(scene): scene.add(this.group), then init().  Only
\* LightningStormEffect.init touches the scene itself (the fog).
Construct(cls, id, sc) ==
    [e |-> NewInstance(cls),
     scene |-> [sc EXCEPT !.children = @ \cup {id},
                          !.fog = IF cls = "LightningStormEffect"
                                  THEN StormFog ELSE @]]

\* The resources that one x.dispose() statement of a dispose() method
\* releases: every live resource held under that name.
\* The number of the next object that update makes.
FreshId(e) ==
    LET used == {r[2] : r \in e.live \cup e.children}
    IN  CHOOSE k \in 1..(Cardinality(used) + 1) :
            /\ k \notin used
            /\ \A j \in 1..(k - 1) : j \in used

Released(e, name) == {r \in e.live : r[1] = name}

RECURSIVE ReleasePrefix(_, _, _)
ReleasePrefix(e, names, k) ==
    IF k = 0 THEN e.live
    ELSE ReleasePrefix(e, names, k - 1) \ Released(e, names[k])

\* A dispose() that releases the resources but leaves the group under the
\* scene root.
DisposeKeepsGroup(e, id, sc, throwAt) ==
    LET names == DisposeOf(e.cls)
        done  == IF throwAt = 0 THEN Len(names) ELSE throwAt - 1
    IN  [e |-> [e EXCEPT !.live = ReleasePrefix(e, names, done),
                         !.disposeCalls = Bump(@)],
         scene |-> [sc EXCEPT !.fog = IF e.cls = "LightningStormEffect"
                                      THEN NoFog ELSE @],
         threw |-> throwAt # 0]

\* dispose(): scene.remove(this.group) first, then (LightningStormEffect)
\* scene.fog = null, then the release statements in order.  throwAt = 0:
\* dispose returns normally; throwAt = k > 0: the k-th release statement
\* throws, so the k-1 statements before it have run.
Dispose(e, id, sc, throwAt) ==
    LET names == DisposeOf(e.cls)
        done  == IF throwAt = 0 THEN Len(names) ELSE throwAt - 1
    IN  [e |-> [e EXCEPT !.live = ReleasePrefix(e, names, done),
                         !.disposeCalls = Bump(@)],
         scene |-> [sc EXCEPT !.children = @ \ {id},
                              !.fog = IF e.cls = "LightningStormEffect"
                                      THEN NoFog ELSE @],
         threw |-> throwAt # 0]

(***************************************************************************)
(* Audio.  The frequency buffer of a frame is piecewise constant: one byte *)
(* level on each of the index ranges [0, cut1), [cut1, cut2) and           *)
(* [cut2, bufferLength).  An analyser with no source connected yields      *)
(* zeros.  The buffer is refilled in every frame before it is read; a      *)
(* connected source plays a steady tone, chosen when it is connected.      *)
(***************************************************************************)
fftSize == 2048

bufferLength == fftSize \div 2

ShapeLow == bufferLength \div 10

ShapeMid == bufferLength \div 2

ByteLevels == {0, 255}

Silence ==
    [low |-> 0, mid |-> 0, high |-> 0, cut1 |-> ShapeLow, cut2 |-> ShapeMid]

\* The spectra of a frame: the bass bins at one level, the mid and high bins
\* at one level.
Buffers ==
    {[low |-> 0, mid |-> h, high |-> h, cut1 |-> ShapeLow, cut2 |-> ShapeMid] :
        h \in ByteLevels}

ByteAt(buf, i) ==
    IF i < buf.cut1 THEN buf.low ELSE IF i < buf.cut2 THEN buf.mid ELSE buf.high

Overlap(lo, hi, a, b) == Max(0, Min(hi, b) - Max(lo, a))

\* The sum of dataArray[i] for lo <= i < hi.
SumBytes(buf, lo, hi) ==
    Overlap(lo, hi, 0, buf.cut1) * buf.low
    + Overlap(lo, hi, buf.cut1, buf.cut2) * buf.mid
    + Overlap(lo, hi, buf.cut2, bufferLength) * buf.high

\* (sum of byte/255.0 over n bins) / n, in micro units.
MeanMicro(sum, n) == ((((sum * 1000) \div 255) * 1000) \div n)

AudioInit ==
    [audioContext |-> FALSE,
     analyser |-> 0,
     connected |-> {},
     dataArray |-> FALSE,
     isAudioActive |-> FALSE,
     pending |-> {},
     tone |-> Silence,
     outcome |-> "none",
     calls |-> 0]

\* A test that looks at the analyser alone.
IsCapturingAnalyserOnly(a) == a.analyser # 0

\* The test `isAudioActive && analyser` of getAudioData.
IsCapturing(a) == a.isAudioActive /\ a.analyser # 0

\* A getAudioData whose low band takes the bin at lowBound too.
getAudioDataSharedBin(a, t, buf) ==
    IF IsCapturing(a)
    THEN LET lowBound == bufferLength \div 10
             midBound == bufferLength \div 2
         IN  [low  |-> MeanMicro(SumBytes(buf, 0, lowBound + 1), lowBound),
              mid  |-> MeanMicro(SumBytes(buf, lowBound, midBound),
                                 midBound - lowBound),
              high |-> MeanMicro(SumBytes(buf, midBound, bufferLength),
                                 bufferLength - midBound)]
    ELSE [low  |-> (((Sin(2000 * t) \div 2) + 500000) * 8) \div 10,
          mid  |-> (((Sin(1500 * t + 1000000) \div 2) + 500000) * 6) \div 10,
          high |-> (((Sin(3000 * t + 2000000) \div 2) + 500000) * 5) \div 10]

\* getAudioData(time): the three bands, in micro units.
getAudioData(a, t, buf) ==
    IF IsCapturing(a)
    THEN LET lowBound == bufferLength \div 10
             midBound == bufferLength \div 2
         IN  [low  |-> MeanMicro(SumBytes(buf, 0, lowBound), lowBound),
              mid  |-> MeanMicro(SumBytes(buf, lowBound, midBound),
                                 midBound - lowBound),
              high |-> MeanMicro(SumBytes(buf, midBound, bufferLength),
                                 bufferLength - midBound)]
    ELSE [low  |-> (((Sin(2000 * t) \div 2) + 500000) * 8) \div 10,
          mid  |-> (((Sin(1500 * t + 1000000) \div 2) + 500000) * 6) \div 10,
          high |-> (((Sin(3000 * t + 2000000) \div 2) + 500000) * 5) \div 10]

\* What analyser.getByteFrequencyData writes in this frame: the spectrum of
\* the source, a steady tone, when one is connected to the analyser.
FrameBuffers(a) ==
    IF \E c \in a.connected : c[2] = a.analyser THEN {a.tone} ELSE {Silence}

\* A startAudio that sets isAudioActive before it awaits the capture.
startAudioActiveEarly(a) ==
    LET q == a.calls + 1
    IN  [a EXCEPT !.audioContext = TRUE,
                  !.analyser = q,
                  !.tone = Silence,
                  !.pending = @ \cup {q},
                  !.isAudioActive = TRUE,
                  !.calls = q]

\* startAudio(sourceType) up to its await: the context, a new analyser (no
\* source is connected to it yet), and the capture request, numbered by
\* the call.
startAudio(a) ==
    LET q == a.calls + 1
    IN  [a EXCEPT !.audioContext = TRUE,
                  !.analyser = q,
                  !.tone = Silence,
                  !.pending = @ \cup {q},
                  !.calls = q]

\* The rest of the try block once the request q is granted: the stream's
\* source, which plays tone, is connected to the analyser the global names
\* now.
startAudio_granted(a, q, tone) ==
    [a EXCEPT !.pending = @ \ {q},
              !.tone = tone,
              !.connected = @ \cup {<<q, a.analyser>>},
              !.dataArray = TRUE,
              !.isAudioActive = TRUE,
              !.outcome = "granted"]

\* The catch block once the request q is rejected: console.error, alert and
\* confirm; no audio state is written.
startAudio_rejected(a, q) ==
    [a EXCEPT !.pending = @ \ {q},
              !.outcome = "rejected"]

(***************************************************************************)
(* Math.random().  The draws of one update call are an input: coins for    *)
(* the comparisons (c1 to c4: the draw was below the threshold), u1 and u2 *)
(* for draws used as magnitudes, in tenths (u1 is 0 throughout, u2 is 0    *)
(* for the lightning), b for the number of branches a bolt grows at each   *)
(* level.  The draws for the mini bolts of the lightning (below 0.2) fail. *)
(***************************************************************************)
RandLevels == {9}

NoDraw == [c1 |-> FALSE, c2 |-> FALSE, c3 |-> FALSE, c4 |-> FALSE, u1 |-> 0, u2 |-> 0, b |-> 0]

RandomOutcomes(cls) ==
    CASE cls = "FireworksEffect" ->
           {[NoDraw EXCEPT !.c1 = c1, !.c2 = c2, !.u2 = u2] :
              c1 \in BOOLEAN, c2 \in BOOLEAN, u2 \in RandLevels}
      [] cls = "FireworksEarly" ->
           {[NoDraw EXCEPT !.c1 = c1, !.c2 = c2, !.c3 = c3, !.c4 = c4, !.u2 = u2] :
              c1 \in BOOLEAN, c2 \in BOOLEAN, c3 \in BOOLEAN, c4 \in BOOLEAN,
              u2 \in RandLevels}
      [] cls = "LightningStormEffect" ->
           {[NoDraw EXCEPT !.c3 = c3, !.b = b] : c3 \in BOOLEAN, b \in {0, 1}}
      [] cls = "MultiverseEffect" -> {[NoDraw EXCEPT !.c3 = c3] : c3 \in BOOLEAN}
      [] OTHER -> {NoDraw}

RemoveAt(s, i) == SubSeq(s, 1, i - 1) \o SubSeq(s, i + 1, Len(s))

(***************************************************************************)
(* FireworksEffect, revisions B and C.  The position and velocity buffers  *)
(* of a burst's particles are not modelled: a burst is its mesh, its       *)
(* geometry, its age, its lifespan and the height y it was created at.     *)
(***************************************************************************)
launchRocket(e, type, intensity, rnd) ==
    [e EXCEPT !.rockets = Append(@, [y |-> -500,
                                     vy |-> 80 + 2 * rnd.u2,
                                     targetY |-> 2500 + 150 * rnd.u1,
                                     type |-> type,
                                     intensity |-> intensity])]

createShockwave(e, k) ==
    [e EXCEPT !.live = @ \cup {<<"shockwaves.mesh.geometry", k>>,
                               <<"shockwaves.mesh.material", k>>},
              !.children = @ \cup {<<"shockwaves.mesh", k>>},
              !.shockwaves = Append(@, [id |-> k, age |-> 0])]

explode(e, y, type, intensity) ==
    LET k == FreshId(e)
        burst == [id |-> k, type |-> type, age |-> 0,
                  lifespan |-> 2000 + (intensity \div 1000), y |-> y]
    IN  createShockwave(
            [e EXCEPT !.live = @ \cup {<<"particles.mesh.geometry", k>>},
                      !.children = @ \cup {<<"particles.mesh", k>>},
                      !.particles = Append(@, burst)],
            k)

\* A launch step without the cooldown test.
FireworksEffect_launchNoCooldown(e, t, audioData, rnd) ==
    IF audioData.low > 450000
    THEN [launchRocket(e, "heart", audioData.low, rnd) EXCEPT !.lastTime = t]
    ELSE IF audioData.mid > 400000 /\ rnd.c1
    THEN [launchRocket(e, "star", audioData.mid, rnd) EXCEPT !.lastTime = t]
    ELSE IF audioData.high > 500000 /\ rnd.c2
    THEN [launchRocket(e, "leaf", audioData.high, rnd) EXCEPT !.lastTime = t]
    ELSE IF t - e.lastTime > 1500
    THEN [launchRocket(e, "dot", 300000, rnd) EXCEPT !.lastTime = t]
    ELSE e

FireworksEffect_launch(e, t, audioData, rnd) ==
    IF t - e.lastTime > 100
    THEN IF audioData.low > 450000
         THEN [launchRocket(e, "heart", audioData.low, rnd) EXCEPT !.lastTime = t]
         ELSE IF audioData.mid > 400000 /\ rnd.c1
         THEN [launchRocket(e, "star", audioData.mid, rnd) EXCEPT !.lastTime = t]
         ELSE IF audioData.high > 500000 /\ rnd.c2
         THEN [launchRocket(e, "leaf", audioData.high, rnd) EXCEPT !.lastTime = t]
         ELSE IF t - e.lastTime > 1500
         THEN [launchRocket(e, "dot", 300000, rnd) EXCEPT !.lastTime = t]
         ELSE e
    ELSE e

\* A rockets loop that explodes a rocket and leaves it in flight.
RECURSIVE FireworksEffect_rocketsNoSplice(_, _)
FireworksEffect_rocketsNoSplice(e, i) ==
    IF i = 0 THEN e
    ELSE LET r == [e.rockets[i] EXCEPT !.y = @ + e.rockets[i].vy]
         IN  FireworksEffect_rocketsNoSplice(
                 IF r.y >= r.targetY
                 THEN [explode(e, r.y, r.type, r.intensity) EXCEPT
                          !.rockets[i] = r]
                 ELSE [e EXCEPT !.rockets[i] = r],
                 i - 1)

RECURSIVE FireworksEffect_rockets(_, _)
FireworksEffect_rockets(e, i) ==
    IF i = 0 THEN e
    ELSE LET r == [e.rockets[i] EXCEPT !.y = @ + e.rockets[i].vy]
         IN  FireworksEffect_rockets(
                 IF r.y >= r.targetY
                 THEN [explode(e, r.y, r.type, r.intensity) EXCEPT
                          !.rockets = RemoveAt(@, i)]
                 ELSE [e EXCEPT !.rockets[i] = r],
                 i - 1)

BurstOpacity(p) == 1000000 - (((p.age * 1000) \div p.lifespan) * 1000)

\* A particle loop that removes a burst one update late.
RECURSIVE FireworksEffect_particlesLate(_, _)
FireworksEffect_particlesLate(e, i) ==
    IF i = 0 THEN e
    ELSE LET p  == [e.particles[i] EXCEPT !.age = @ + 16]
             e1 == [e EXCEPT !.particles[i] = p,
                             !.opacity[p.type] = BurstOpacity(p)]
         IN  FireworksEffect_particlesLate(
                 IF p.age >= p.lifespan + 16
                 THEN [e1 EXCEPT
                          !.children = @ \ {<<"particles.mesh", p.id>>},
                          !.live = @ \ {<<"particles.mesh.geometry", p.id>>},
                          !.particles = RemoveAt(@, i)]
                 ELSE e1,
                 i - 1)

RECURSIVE FireworksEffect_particles(_, _)
FireworksEffect_particles(e, i) ==
    IF i = 0 THEN e
    ELSE LET p  == [e.particles[i] EXCEPT !.age = @ + 16]
             e1 == [e EXCEPT !.particles[i] = p,
                             !.opacity[p.type] = BurstOpacity(p)]
         IN  FireworksEffect_particles(
                 IF p.age >= p.lifespan
                 THEN [e1 EXCEPT
                          !.children = @ \ {<<"particles.mesh", p.id>>},
                          !.live = @ \ {<<"particles.mesh.geometry", p.id>>},
                          !.particles = RemoveAt(@, i)]
                 ELSE e1,
                 i - 1)

RECURSIVE FireworksEffect_shockwaves(_, _)
FireworksEffect_shockwaves(e, i) ==
    IF i = 0 THEN e
    ELSE LET w == [e.shockwaves[i] EXCEPT !.age = @ + 20]
         IN  FireworksEffect_shockwaves(
                 IF w.age > 800
                 THEN [e EXCEPT
                          !.children = @ \ {<<"shockwaves.mesh", w.id>>},
                          !.live = @ \ {<<"shockwaves.mesh.geometry", w.id>>,
                                        <<"shockwaves.mesh.material", w.id>>},
                          !.shockwaves = RemoveAt(@, i)]
                 ELSE [e EXCEPT !.shockwaves[i] = w],
                 i - 1)

FireworksEffect_update(e, sc, t, audioData, rnd) ==
    LET e1 == FireworksEffect_launch(e, t, audioData, rnd)
        e2 == FireworksEffect_rockets(e1, Len(e1.rockets))
        e3 == FireworksEffect_particles(e2, Len(e2.particles))
        e4 == FireworksEffect_shockwaves(e3, Len(e3.shockwaves))
    IN  [e |-> e4,
         scene |-> [sc EXCEPT !.rotY = Sin(200 * t) \div 20],
         timeouts |-> {}]

(***************************************************************************)
(* FireworksEffect, revision A.  Each particle is simulated; its x and z   *)
(* go only into the geometry buffers and are left out.  An explosion makes *)
(* BurstParticles particles where the code makes count (100 or 300).  The  *)
(* field born of a particle is the time of the update that pushed it: it   *)
(* tells the particle objects apart and nothing reads it.                  *)
(***************************************************************************)
FireworksEarly_launchRocket(e, isHigh, rnd) ==
    [e EXCEPT !.rockets =
        Append(@, [y |-> -500,
                   vy |-> IF isHigh THEN 80 ELSE 50,
                   targetY |-> IF isHigh THEN 2000 + 100 * rnd.u1
                               ELSE 1000 + 50 * rnd.u1,
                   type |-> IF isHigh THEN "high" ELSE "low",
                   intensity |-> 0])]

\* explode(): the particles, then a PointLight added to the group and a
\* timeout of 200 ms that removes it.
FireworksEarly_explode(x, r, t, rnd) ==
    LET e == x.e
        k == FreshId(e)
        spread == IF r.type = "high" THEN 100 ELSE 50
        p == [y |-> r.y * 10, vy |-> rnd.u1 * spread, alpha |-> 1000000,
              decay |-> 10000 + 2000 * rnd.u2, gravity |-> 10, born |-> t]
    IN  [e |-> [e EXCEPT !.particles = @ \o [j \in 1..BurstParticles |-> p],
                         !.children = @ \cup {<<"light", k>>}],
         timeouts |-> x.timeouts \cup {[light |-> k, due |-> t + 200]}]

FireworksEarly_launch(e, t, audioData, rnd) ==
    LET e1 == IF t - e.lastTime > 800
              THEN [FireworksEarly_launchRocket(e, rnd.c1, rnd) EXCEPT
                       !.lastTime = t]
              ELSE e
    IN  IF t - e1.lastTime > 150
        THEN IF audioData.low > 400000
             THEN [FireworksEarly_launchRocket(e1, TRUE, rnd) EXCEPT !.lastTime = t]
             ELSE IF audioData.mid > 400000 /\ rnd.c1
             THEN [FireworksEarly_launchRocket(e1, FALSE, rnd) EXCEPT !.lastTime = t]
             ELSE IF audioData.high > 500000 /\ rnd.c2
             THEN [FireworksEarly_launchRocket(e1, FALSE, rnd) EXCEPT !.lastTime = t]
             ELSE e1
        ELSE e1

TrailParticle(r, t) ==
    [y |-> r.y * 10, vy |-> -100, alpha |-> 1000000, decay |-> 50000, gravity |-> 0,
     born |-> t]

RECURSIVE FireworksEarly_rockets(_, _, _, _)
FireworksEarly_rockets(x, i, t, rnd) ==
    IF i = 0 THEN x
    ELSE LET r  == [x.e.rockets[i] EXCEPT !.y = @ + x.e.rockets[i].vy]
             x1 == [x EXCEPT !.e.rockets[i] = r,
                             !.e.particles = IF rnd.c4
                                             THEN Append(@, TrailParticle(r, t))
                                             ELSE @]
         IN  FireworksEarly_rockets(
                 IF r.y >= r.targetY
                 THEN [FireworksEarly_explode(x1, r, t, rnd) EXCEPT
                          !.e.rockets = RemoveAt(@, i)]
                 ELSE x1,
                 i - 1, t, rnd)

RECURSIVE FireworksEarly_particles(_, _)
FireworksEarly_particles(e, i) ==
    IF i = 0 THEN e
    ELSE LET q == e.particles[i]
             p == [q EXCEPT !.y = @ + q.vy,
                            !.vy = ((q.vy - q.gravity) * 95) \div 100,
                            !.alpha = @ - q.decay]
         IN  FireworksEarly_particles(
                 IF p.alpha <= 0 \/ p.y < -5000
                 THEN [e EXCEPT !.particles = RemoveAt(@, i)]
                 ELSE [e EXCEPT !.particles[i] = p],
                 i - 1)

FireworksEarly_update(e, sc, t, audioData, rnd) ==
    LET e1 == FireworksEarly_launch(e, t, audioData, rnd)
        x2 == FireworksEarly_rockets([e |-> e1, timeouts |-> {}],
                                     Len(e1.rockets), t, rnd)
        e3 == FireworksEarly_particles(x2.e, Len(x2.e.particles))
    IN  [e |-> [e3 EXCEPT !.children = @ \cup {<<"activeMesh", 0>>}],
         scene |-> [sc EXCEPT !.rotY = Sin(100 * t) \div 10],
         timeouts |-> x2.timeouts]

(***************************************************************************)
(* LightningStormEffect.  createBolt makes the branches before the bolt    *)
(* itself; rnd.b is the number of branches a bolt of level 0 or 1 grows    *)
(* (the code draws one coin for each of its 9 inner segments).  The field  *)
(* level of a bolt is the recursionLevel it was made at.                   *)
(***************************************************************************)
RECURSIVE createBolt(_, _, _)
createBolt(e, recursionLevel, rnd) ==
    LET branches == IF recursionLevel < 2 THEN rnd.b ELSE 0
        e1 == IF branches = 0 THEN e ELSE createBolt(e, recursionLevel + 1, rnd)
        k  == FreshId(e1)
    IN  [e1 EXCEPT !.live = @ \cup {<<"bolts.mesh.geometry", k>>,
                                    <<"bolts.mesh.material", k>>},
                   !.children = @ \cup {<<"bolts.mesh", k>>},
                   !.bolts = Append(@, [id |-> k, life |-> 1000000,
                                        decay |-> 100000 + 10000 * rnd.u2,
                                        level |-> recursionLevel])]

\* The bands i of the 16 whose sample dataArray[i * step] is above 0.6 and
\* whose draw is below 0.2; the draws of bands 0 and 8 are c1 and c2, the
\* other draws fail.
MiniBoltBands(buf, rnd) ==
    LET bands == 16
        step  == bufferLength \div bands
    IN  {i \in {0, 8} : /\ ByteAt(buf, i * step) * 1000 > 600 * 255
                        /\ IF i = 0 THEN rnd.c1 ELSE rnd.c2}

\* The audio analysis for the aurora: the bins [from, to) that each of the
\* three loops adds up (i < bufferLength * 0.1 lets i = 102 in, and
\* Math.floor(bufferLength * 0.1) starts the next loop at 102), and the
\* sums over bufferLength * 0.1 * 255, * 0.4 * 255 and * 0.5 * 255, in
\* micro units.  The instance keeps them in the field bands.
LightningStormEffect_ranges ==
    [bass |-> <<0, (bufferLength + 9) \div 10>>,
     mid  |-> <<bufferLength \div 10, (bufferLength + 1) \div 2>>,
     high |-> <<bufferLength \div 2, bufferLength>>]

LightningStormEffect_analysis(a, buf) ==
    LET rg == LightningStormEffect_ranges
    IN  IF a.isAudioActive /\ a.dataArray
        THEN [bass |-> (((SumBytes(buf, rg.bass[1], rg.bass[2]) * 1000) \div 255)
                           * 10000) \div bufferLength,
              mid  |-> (((SumBytes(buf, rg.mid[1], rg.mid[2]) * 1000) \div 255)
                           * 2500) \div bufferLength,
              high |-> (((SumBytes(buf, rg.high[1], rg.high[2]) * 1000) \div 255)
                           * 2000) \div bufferLength]
        ELSE [bass |-> 0, mid |-> 0, high |-> 0]

RECURSIVE LightningStormEffect_miniBolts(_, _, _)
LightningStormEffect_miniBolts(e, todo, rnd) ==
    IF todo = {} THEN e
    ELSE LET i == CHOOSE j \in todo : \A m \in todo : j <= m
         IN  LightningStormEffect_miniBolts(createBolt(e, 1, rnd), todo \ {i}, rnd)

LightningStormEffect_strike(e, t, audioData, rnd) ==
    LET trigger == (audioData.high * 6 + audioData.low * 4) \div 10
    IN  IF t - e.lastTime > 150 /\ trigger > 500000 /\ rnd.c3
        THEN [createBolt(e, 0, rnd) EXCEPT !.lastTime = t]
        ELSE e

\* A bolts loop that detaches a spent bolt and keeps its material.
RECURSIVE LightningStormEffect_boltsKeepMaterial(_, _)
LightningStormEffect_boltsKeepMaterial(e, i) ==
    IF i = 0 THEN e
    ELSE LET b == [e.bolts[i] EXCEPT !.life = @ - e.bolts[i].decay]
         IN  LightningStormEffect_boltsKeepMaterial(
                 IF b.life <= 0
                 THEN [e EXCEPT
                          !.children = @ \ {<<"bolts.mesh", b.id>>},
                          !.live = @ \ {<<"bolts.mesh.geometry", b.id>>},
                          !.bolts = RemoveAt(@, i)]
                 ELSE [e EXCEPT !.bolts[i] = b],
                 i - 1)

RECURSIVE LightningStormEffect_bolts(_, _)
LightningStormEffect_bolts(e, i) ==
    IF i = 0 THEN e
    ELSE LET b == [e.bolts[i] EXCEPT !.life = @ - e.bolts[i].decay]
         IN  LightningStormEffect_bolts(
                 IF b.life <= 0
                 THEN [e EXCEPT
                          !.children = @ \ {<<"bolts.mesh", b.id>>},
                          !.live = @ \ {<<"bolts.mesh.geometry", b.id>>,
                                        <<"bolts.mesh.material", b.id>>},
                          !.bolts = RemoveAt(@, i)]
                 ELSE [e EXCEPT !.bolts[i] = b],
                 i - 1)

LightningStormEffect_update(e, sc, t, audioData, a, buf, rnd) ==
    LET e1 == IF a.isAudioActive /\ a.dataArray
              THEN LightningStormEffect_miniBolts(e, MiniBoltBands(buf, rnd), rnd)
              ELSE e
        e2 == LightningStormEffect_strike(e1, t, audioData, rnd)
        e3 == LightningStormEffect_bolts(e2, Len(e2.bolts))
    IN  [e |-> [e3 EXCEPT !.bands = LightningStormEffect_analysis(a, buf)],
         scene |-> [sc EXCEPT !.rotZ = Sin(100 * t) \div 20,
                              !.rotY = Sin(50 * t) \div 10],
         timeouts |-> {}]

(***************************************************************************)
(* The shooting stars of CosmicEffect (revision B) and MultiverseEffect:   *)
(* rnd.c4 is the spawn draw (below 0.02 or 0.03), rnd.u2 the draw for the  *)
(* speed; the positions of a star are left out.  MultiverseEffect also     *)
(* spawns fireworks on bass.  The pool allocates nothing after init.       *)
(***************************************************************************)
\* A spawn that takes the first star of the pool, active or not.
spawnShootingStarFirst(e, rnd) ==
    [e EXCEPT !.shootingStars[1] =
                  [active |-> TRUE, visible |-> TRUE, progress |-> 0,
                   speed |-> 5000 + 1000 * rnd.u2]]

spawnShootingStar(e, rnd) ==
    LET idle == {k \in 1..Len(e.shootingStars) : ~e.shootingStars[k].active}
    IN  IF idle = {} THEN e
        ELSE LET k == CHOOSE j \in idle : \A m \in idle : j <= m
             IN  [e EXCEPT !.shootingStars[k] =
                               [active |-> TRUE, visible |-> TRUE, progress |-> 0,
                                speed |-> 5000 + 1000 * rnd.u2]]

updateShootingStars(e, rnd) ==
    LET e1 == IF rnd.c4 THEN spawnShootingStar(e, rnd) ELSE e
    IN  [e1 EXCEPT !.shootingStars =
            [k \in 1..Len(e1.shootingStars) |->
                LET star == e1.shootingStars[k]
                IN  IF ~star.active THEN star
                    ELSE IF star.progress + star.speed >= 1000000
                    THEN [star EXCEPT !.progress = @ + star.speed,
                                      !.active = FALSE, !.visible = FALSE]
                    ELSE [star EXCEPT !.progress = @ + star.speed]]]

CosmicGalaxy_update(e, sc, t, audioData, rnd) ==
    [e |-> updateShootingStars(e, rnd), scene |-> sc, timeouts |-> {}]

spawnFirework(e) ==
    LET k == FreshId(e)
    IN  [e EXCEPT !.live = @ \cup {<<"fireworks.mesh.geometry", k>>,
                                   <<"fireworks.mesh.material", k>>},
                  !.children = @ \cup {<<"fireworks.mesh", k>>},
                  !.fireworks = Append(@, [id |-> k, life |-> 1000000])]

RECURSIVE updateFireworks(_, _)
updateFireworks(e, i) ==
    IF i = 0 THEN e
    ELSE LET fw == [e.fireworks[i] EXCEPT !.life = @ - 20000]
         IN  updateFireworks(
                 IF fw.life <= 0
                 THEN [e EXCEPT
                          !.children = @ \ {<<"fireworks.mesh", fw.id>>},
                          !.live = @ \ {<<"fireworks.mesh.geometry", fw.id>>,
                                        <<"fireworks.mesh.material", fw.id>>},
                          !.fireworks = RemoveAt(@, i)]
                 ELSE [e EXCEPT !.fireworks[i] = fw],
                 i - 1)

MultiverseEffect_update(e, sc, t, audioData, rnd) ==
    LET e0 == updateShootingStars(e, rnd)
        e1 == IF audioData.low > 700000 /\ rnd.c3 THEN spawnFirework(e0) ELSE e0
    IN  [e |-> updateFireworks(e1, Len(e1.fireworks)),
         scene |-> sc,
         timeouts |-> {}]

\* update(time, audioData) of the instance e, and the counters of the model.
Update(e, sc, t, audioData, a, buf, rnd) ==
    LET r == CASE e.cls = "FireworksEffect" ->
                    FireworksEffect_update(e, sc, t, audioData, rnd)
               [] e.cls = "FireworksEarly" ->
                    FireworksEarly_update(e, sc, t, audioData, rnd)
               [] e.cls = "LightningStormEffect" ->
                    LightningStormEffect_update(e, sc, t, audioData, a, buf, rnd)
               [] e.cls = "MultiverseEffect" ->
                    MultiverseEffect_update(e, sc, t, audioData, rnd)
               [] e.cls = "CosmicGalaxy" ->
                    CosmicGalaxy_update(e, sc, t, audioData, rnd)
               [] OTHER -> [e |-> e, scene |-> sc, timeouts |-> {}]
    IN  [r EXCEPT !.e.uTime = t,
                  !.e.updates = Bump(@),
                  !.e.updatesAfterDispose = IF e.disposeCalls > 0 THEN Bump(@) ELSE @]

\* The bounds on the collections of an instance.
WithinBounds(e) ==
    /\ Len(e.rockets) <= MaxRockets
    /\ Len(e.particles) <= (IF e.cls = "FireworksEarly" THEN MaxParticles ELSE MaxBursts)
    /\ Len(e.shockwaves) <= MaxBursts
    /\ Len(e.bolts) <= MaxBolts
    /\ Len(e.fireworks) <= MaxBursts

(***************************************************************************)
(* VisualizerManager.                                                      *)
(***************************************************************************)
Tokens ==
    {"cosmic", "wave", "light", "fireworks", "lightning", "reactor",
     "multiverse", "dancer"}

\* The cases of the switch statement of each revision.
Modes(r) ==
    CASE r = "A" -> {"cosmic", "wave", "light", "fireworks"}
      [] r = "C" -> {"cosmic", "wave", "light", "fireworks", "lightning"}
      [] r = "B" -> {"cosmic", "wave", "light", "fireworks", "lightning",
                     "reactor", "multiverse"}

\* The class that `new XEffect(this.scene)` names in revision r.
ClassOf(r, mode) ==
    CASE mode = "cosmic" -> IF r = "B" THEN "CosmicGalaxy" ELSE "CosmicEffect"
      [] mode = "wave" -> "WaveEffect"
      [] mode = "light" -> "LightShowEffect"
      [] mode = "fireworks" -> IF r = "A" THEN "FireworksEarly" ELSE "FireworksEffect"
      [] mode = "lightning" -> "LightningStormEffect"
      [] mode = "reactor" -> "AudioReactorEffect"
      [] mode = "multiverse" -> "MultiverseEffect"

DefaultCamera == [position |-> <<0, 5, 15>>, lookAt |-> <<0, 0, 0>>]

CameraOf(mode) ==
    CASE mode = "wave" -> [position |-> <<0, 5, 30>>, lookAt |-> <<0, 5, -50>>]
      [] mode = "fireworks" -> [position |-> <<0, 5, 40>>, lookAt |-> <<0, 10, 0>>]
      [] mode = "lightning" -> [position |-> <<0, 5, 30>>, lookAt |-> <<0, 10, 0>>]
      [] mode = "reactor" -> [position |-> <<0, 0, 40>>, lookAt |-> <<0, 0, 0>>]
      [] mode = "multiverse" -> [position |-> <<0, 0, 50>>, lookAt |-> <<0, 0, 0>>]
      [] OTHER -> DefaultCamera

Ev(name, inst) == [ev |-> name, inst |-> inst]

\* A call with a time argument and the bands it takes or returns.
Call(name, inst, t, bands) ==
    [ev |-> name, inst |-> inst, time |-> t, bands |-> bands]

\* Whether switchMode of revision r wraps dispose() in try/catch.
CatchesDispose(r) == r = "B"

\* A switchMode that sets the camera only in the cases that name a pose.
switchModeKeepsPose(r, m, mode, throwAt) ==
    LET cur == m.currentEffect
        d   == IF cur # Null
               THEN Dispose(m.heap[cur], cur, m.scene, throwAt)
               ELSE [e |-> Null, scene |-> m.scene, threw |-> FALSE]
        h1  == IF cur # Null THEN [m.heap EXCEPT ![cur] = d.e] ELSE m.heap
        log1 == IF cur # Null THEN <<Ev("dispose", cur)>> ELSE <<>>
    IN  IF d.threw /\ ~CatchesDispose(r)
        THEN [scene |-> d.scene,
              camera |-> m.camera,
              currentEffect |-> cur,
              heap |-> h1,
              threw |-> TRUE,
              fault |-> TRUE,
              log |-> log1]
        ELSE LET sc1 == [d.scene EXCEPT !.fog = NoFog]
             IN  IF mode \in Modes(r)
                 THEN LET id == Len(h1) + 1
                          c  == Construct(ClassOf(r, mode), id,
                                          [sc1 EXCEPT !.fog = IF mode = "cosmic"
                                                              THEN CosmicFog ELSE @])
                      IN  [scene |-> c.scene,
                           camera |-> IF CameraOf(mode) = DefaultCamera
                                      THEN m.camera ELSE CameraOf(mode),
                           currentEffect |-> id,
                           heap |-> Append(h1, c.e),
                           threw |-> FALSE,
                           fault |-> d.threw,
                           log |-> log1
                                   \o (IF d.threw THEN <<Ev("console.error", cur)>>
                                       ELSE <<>>)
                                   \o <<Ev("construct", id)>>]
                 ELSE [scene |-> sc1,
                       camera |-> m.camera,
                       currentEffect |-> cur,
                       heap |-> h1,
                       threw |-> FALSE,
                       fault |-> d.threw,
                       log |-> log1 \o (IF d.threw THEN <<Ev("console.error", cur)>>
                                        ELSE <<>>)]

\* switchMode(mode) on the manager state m = [scene, camera, currentEffect,
\* heap]; throwAt as in Dispose.  The result carries the events in order
\* and whether an exception left switchMode.
switchMode(r, m, mode, throwAt) ==
    LET cur == m.currentEffect
        d   == IF cur # Null
               THEN Dispose(m.heap[cur], cur, m.scene, throwAt)
               ELSE [e |-> Null, scene |-> m.scene, threw |-> FALSE]
        h1  == IF cur # Null THEN [m.heap EXCEPT ![cur] = d.e] ELSE m.heap
        log1 == IF cur # Null THEN <<Ev("dispose", cur)>> ELSE <<>>
    IN  IF d.threw /\ ~CatchesDispose(r)
        THEN [scene |-> d.scene,
              camera |-> m.camera,
              currentEffect |-> cur,
              heap |-> h1,
              threw |-> TRUE,
              fault |-> TRUE,
              log |-> log1]
        ELSE LET sc1 == [d.scene EXCEPT !.fog = NoFog]
             IN  IF mode \in Modes(r)
                 THEN LET id == Len(h1) + 1
                          c  == Construct(ClassOf(r, mode), id,
                                          [sc1 EXCEPT !.fog = IF mode = "cosmic"
                                                              THEN CosmicFog ELSE @])
                      IN  [scene |-> c.scene,
                           camera |-> CameraOf(mode),
                           currentEffect |-> id,
                           heap |-> Append(h1, c.e),
                           threw |-> FALSE,
                           fault |-> d.threw,
                           log |-> log1
                                   \o (IF d.threw THEN <<Ev("console.error", cur)>>
                                       ELSE <<>>)
                                   \o <<Ev("construct", id)>>]
                 ELSE [scene |-> sc1,
                       camera |-> DefaultCamera,
                       currentEffect |-> cur,
                       heap |-> h1,
                       threw |-> FALSE,
                       fault |-> d.threw,
                       log |-> log1 \o (IF d.threw THEN <<Ev("console.error", cur)>>
                                        ELSE <<>>)]

\* An animate() that requests no next frame.
animateNoRequest(m, a, t, buf, rnd) ==
    LET audioData == getAudioData(a, t, buf)
        cur == m.currentEffect
        u   == IF cur # Null
               THEN Update(m.heap[cur], m.scene, t, audioData, a, buf, rnd)
               ELSE [e |-> Null, scene |-> m.scene, timeouts |-> {}]
    IN  [scene |-> u.scene,
         camera |-> m.camera,
         currentEffect |-> cur,
         heap |-> IF cur # Null THEN [m.heap EXCEPT ![cur] = u.e] ELSE m.heap,
         timeouts |-> {[inst |-> cur, light |-> x.light, due |-> x.due] :
                          x \in u.timeouts},
         requested |-> 0,
         log |-> <<Call("getAudioData", Null, t, audioData)>>
                 \o (IF IsCapturing(a)
                     THEN <<Ev("getByteFrequencyData", a.analyser)>> ELSE <<>>)
                 \o (IF cur # Null THEN <<Call("update", cur, t, audioData)>>
                     ELSE <<>>)
                 \o <<Ev("render", Null)>>]

\* An animate() that renders before it updates the Effect.
animateRendersFirst(m, a, t, buf, rnd) ==
    LET audioData == getAudioData(a, t, buf)
        cur == m.currentEffect
        u   == IF cur # Null
               THEN Update(m.heap[cur], m.scene, t, audioData, a, buf, rnd)
               ELSE [e |-> Null, scene |-> m.scene, timeouts |-> {}]
    IN  [scene |-> u.scene,
         camera |-> m.camera,
         currentEffect |-> cur,
         heap |-> IF cur # Null THEN [m.heap EXCEPT ![cur] = u.e] ELSE m.heap,
         timeouts |-> {[inst |-> cur, light |-> x.light, due |-> x.due] :
                          x \in u.timeouts},
         requested |-> 1,
         log |-> <<Ev("requestAnimationFrame", Null),
                   Call("getAudioData", Null, t, audioData)>>
                 \o (IF IsCapturing(a)
                     THEN <<Ev("getByteFrequencyData", a.analyser)>> ELSE <<>>)
                 \o <<Ev("render", Null)>>
                 \o (IF cur # Null THEN <<Call("update", cur, t, audioData)>>
                     ELSE <<>>)]

\* animate() at clock value t: requestAnimationFrame, getAudioData (which
\* reads the analyser when capture is active), update of the current Effect,
\* composer.render().  requested: the frame callbacks it requests.
animate(m, a, t, buf, rnd) ==
    LET audioData == getAudioData(a, t, buf)
        cur == m.currentEffect
        u   == IF cur # Null
               THEN Update(m.heap[cur], m.scene, t, audioData, a, buf, rnd)
               ELSE [e |-> Null, scene |-> m.scene, timeouts |-> {}]
    IN  [scene |-> u.scene,
         camera |-> m.camera,
         currentEffect |-> cur,
         heap |-> IF cur # Null THEN [m.heap EXCEPT ![cur] = u.e] ELSE m.heap,
         timeouts |-> {[inst |-> cur, light |-> x.light, due |-> x.due] :
                          x \in u.timeouts},
         requested |-> 1,
         log |-> <<Ev("requestAnimationFrame", Null),
                   Call("getAudioData", Null, t, audioData)>>
                 \o (IF IsCapturing(a)
                     THEN <<Ev("getByteFrequencyData", a.analyser)>> ELSE <<>>)
                 \o (IF cur # Null THEN <<Call("update", cur, t, audioData)>>
                     ELSE <<>>)
                 \o <<Ev("render", Null)>>]

Manager == [scene |-> scene, camera |-> camera,
            currentEffect |-> currentEffect, heap |-> heap]

\* new THREE.Scene(): no children, no fog, the identity transform.
EmptyScene == [children |-> {}, fog |-> NoFog, rotY |-> 0, rotZ |-> 0]

\* The sizes the window takes: window.innerWidth and window.innerHeight.
Viewports == {<<1920, 1080>>, <<800, 600>>}

\* width / height, in micro units.
Aspect(w, h) == (w * 1000000) \div h

\* The constructor's camera, renderer and composer for a window of w x h.
NewView(w, h) ==
    [width |-> w, height |-> h,
     aspect |-> Aspect(w, h),
     renderer |-> <<w, h>>,
     composer |-> <<w, h>>]

\* An onResize() that leaves the composer at its old size.
onResizeRendererOnly(v) ==
    [v EXCEPT !.aspect = Aspect(v.width, v.height),
              !.renderer = <<v.width, v.height>>]

\* onResize() with the window as in v.
onResize(v) ==
    [v EXCEPT !.aspect = Aspect(v.width, v.height),
              !.renderer = <<v.width, v.height>>,
              !.composer = <<v.width, v.height>>]

\* new VisualizerManager(): the scene and camera, switchMode('cosmic'), and
\* the first animate() call, at clock value 0.
Constructed(r) ==
    LET m0 == [scene |-> EmptyScene,
               camera |-> DefaultCamera,
               currentEffect |-> Null,
               heap |-> <<>>]
        m1 == switchMode(r, m0, "cosmic", 0)
    IN  animate([scene |-> m1.scene, camera |-> m1.camera,
                 currentEffect |-> m1.currentEffect, heap |-> m1.heap],
                AudioInit, PageLoadMs, Silence, NoDraw)

Init ==
    /\ rev \in Revisions
    /\ now = PageLoadMs
    /\ scene = Constructed(rev).scene
    /\ camera = Constructed(rev).camera
    /\ currentEffect = Constructed(rev).currentEffect
    /\ heap = Constructed(rev).heap
    /\ timers = {}
    /\ audio = AudioInit
    /\ frames = Constructed(rev).requested
    /\ view = NewView(1920, 1080)
    /\ inputs = 0
    /\ lastCall = [op |-> "constructor", mode |-> "cosmic", threw |-> FALSE,
                   fault |-> FALSE, prev |-> Null,
                   log |-> <<Ev("construct", 1)>>]

\* The instants at which the user acts (a click on a button, an answer to
\* the capture prompt, a resize of the window): between two frames, on
\* every ClickEvery-th frame, at most MaxInputs times.
UserTurn ==
    /\ inputs < MaxInputs
    /\ (now - PageLoadMs) % FrameMs = 0
    /\ ((now - PageLoadMs) \div FrameMs) % ClickEvery = 0

\* A mode click whose handler also drops the capture requests in flight.
SwitchModeCancels(mode) ==
    /\ UserTurn
    /\ inputs' = inputs + 1
    /\ mode \in Modes(rev) => Len(heap) < MaxInstances
    /\ \E m \in {switchMode(rev, Manager, mode, 0)} :
           /\ scene' = m.scene
           /\ camera' = m.camera
           /\ currentEffect' = m.currentEffect
           /\ heap' = m.heap
           /\ lastCall' = [op |-> "switchMode", mode |-> mode, threw |-> m.threw,
                           fault |-> m.fault, prev |-> currentEffect,
                           log |-> m.log]
    /\ audio' = [audio EXCEPT !.pending = {}]
    /\ UNCHANGED <<rev, now, timers, frames, view>>

\* A click on a mode button: manager.switchMode(mode); dispose() returns
\* normally.
SwitchMode(mode) ==
    /\ UserTurn
    /\ inputs' = inputs + 1
    /\ mode \in Modes(rev) => Len(heap) < MaxInstances
    /\ \E m \in {switchMode(rev, Manager, mode, 0)} :
           /\ scene' = m.scene
           /\ camera' = m.camera
           /\ currentEffect' = m.currentEffect
           /\ heap' = m.heap
           /\ lastCall' = [op |-> "switchMode", mode |-> mode, threw |-> m.threw,
                           fault |-> m.fault, prev |-> currentEffect,
                           log |-> m.log]
    /\ UNCHANGED <<rev, now, timers, audio, frames, view>>

\* The release statements of dispose() where a fault is injected: the first
\* and the last.
ThrowPoints(cls) == {1, Len(DisposeOf(cls))}

\* The same click when a release statement of the current Effect's
\* dispose() throws; the fault hits the first dispose() call of a run.
SwitchModeThrow(mode) ==
    /\ UserTurn
    /\ inputs' = inputs + 1
    /\ currentEffect # Null
    /\ \A i \in 1..Len(heap) : heap[i].disposeCalls = 0
    /\ mode \in Modes(rev) => Len(heap) < MaxInstances
    /\ \E throwAt \in ThrowPoints(heap[currentEffect].cls) :
       \E m \in {switchMode(rev, Manager, mode, throwAt)} :
           /\ scene' = m.scene
           /\ camera' = m.camera
           /\ currentEffect' = m.currentEffect
           /\ heap' = m.heap
           /\ lastCall' = [op |-> "switchMode", mode |-> mode, threw |-> m.threw,
                           fault |-> m.fault, prev |-> currentEffect,
                           log |-> m.log]
    /\ UNCHANGED <<rev, now, timers, audio, frames, view>>

\* The animation-frame callback, FrameMs after the previous frame.
Animate ==
    /\ frames > 0
    /\ now < PageLoadMs + MaxFrames * FrameMs
    /\ \E buf \in FrameBuffers(audio) :
         \E rnd \in RandomOutcomes(IF currentEffect = Null THEN "none"
                                    ELSE heap[currentEffect].cls) :
           \E m \in {animate(Manager, audio, now + FrameMs, buf, rnd)} :
               /\ currentEffect # Null => WithinBounds(m.heap[currentEffect])
               /\ now' = now + FrameMs
               /\ scene' = m.scene
               /\ heap' = m.heap
               /\ timers' = timers \cup m.timeouts
               /\ frames' = (frames - 1) + m.requested
               /\ inputs' = 0
               /\ lastCall' = [op |-> "animate", mode |-> "", threw |-> FALSE,
                               fault |-> FALSE, prev |-> currentEffect, log |-> m.log]
    /\ UNCHANGED <<rev, camera, currentEffect, audio, view>>

\* A timeout set by FireworksEffect.explode (revision A) comes due:
\* this.group.remove(light) on the instance that set it.
Timeout ==
    \E x \in timers :
        /\ now' = Max(now, x.due)
        /\ timers' = timers \ {x}
        /\ heap' = [heap EXCEPT ![x.inst].children = @ \ {<<"light", x.light>>}]
        /\ lastCall' = [op |-> "timeout", mode |-> "", threw |-> FALSE,
                        fault |-> FALSE, prev |-> currentEffect,
                        log |-> <<Ev("group.remove", x.inst)>>]
        /\ UNCHANGED <<rev, scene, camera, currentEffect, audio, frames, view,
                       inputs>>

\* A click on a capture button.
StartAudio ==
    /\ UserTurn
    /\ inputs' = inputs + 1
    /\ audio.calls < MaxAudioCalls
    /\ audio' = startAudio(audio)
    /\ lastCall' = [op |-> "startAudio", mode |-> "", threw |-> FALSE,
                    fault |-> FALSE, prev |-> currentEffect, log |-> <<>>]
    /\ UNCHANGED <<rev, now, scene, camera, currentEffect, heap, timers, frames,
                       view>>

\* The capture request q is granted: the rest of the try block.
AudioGranted ==
    \E q \in audio.pending, tone \in Buffers :
        /\ UserTurn
        /\ inputs' = inputs + 1
        /\ audio' = startAudio_granted(audio, q, tone)
        /\ lastCall' = [op |-> "audioGranted", mode |-> "", threw |-> FALSE,
                        fault |-> FALSE, prev |-> currentEffect, log |-> <<>>]
        /\ UNCHANGED <<rev, now, scene, camera, currentEffect, heap, timers, frames,
                       view>>

\* The capture request q is rejected: the catch block (alert and confirm).
AudioRejected ==
    \E q \in audio.pending :
        /\ UserTurn
        /\ inputs' = inputs + 1
        /\ audio' = startAudio_rejected(audio, q)
        /\ lastCall' = [op |-> "audioRejected", mode |-> "", threw |-> FALSE,
                        fault |-> FALSE, prev |-> currentEffect, log |-> <<>>]
        /\ UNCHANGED <<rev, now, scene, camera, currentEffect, heap, timers, frames,
                       view>>

\* The window is resized to w x h and its resize event runs onResize().
Resize(w, h) ==
    /\ UserTurn
    /\ inputs' = inputs + 1
    /\ view' = onResize([view EXCEPT !.width = w, !.height = h])
    /\ lastCall' = [op |-> "onResize", mode |-> "", threw |-> FALSE,
                    fault |-> FALSE, prev |-> currentEffect, log |-> <<>>]
    /\ UNCHANGED <<rev, now, scene, camera, currentEffect, heap, timers, audio,
                   frames>>

Next ==
    \/ \E mode \in Tokens : SwitchMode(mode)
    \/ \E v \in Viewports : Resize(v[1], v[2])
    \/ Animate
    \/ Timeout
    \/ StartAudio
    \/ AudioGranted
    \/ AudioRejected

Spec == Init /\ [][Next]_vars

\* The program with faults injected into dispose().
NextFault ==
    \/ Next
    \/ \E mode \in Tokens : SwitchModeThrow(mode)

SpecFault == Init /\ [][NextFault]_vars

\* Spectra for getAudioData: three byte levels, cut at the band bounds of
\* getAudioData and elsewhere (inside a band, at the ends of the buffer).
TestLevels == {0, 128, 255}

TestCuts == {<<102, 512>>, <<50, 300>>, <<103, 700>>, <<0, 1024>>, <<511, 513>>}

TestBuffers ==
    {[low |-> l, mid |-> m, high |-> h, cut1 |-> c[1], cut2 |-> c[2]] :
        l \in TestLevels, m \in TestLevels, h \in TestLevels, c \in TestCuts}

\* The page after one capture was requested and granted, its source playing
\* any of the spectra above.
InitBands ==
    /\ rev \in Revisions
    /\ now = PageLoadMs
    /\ scene = Constructed(rev).scene
    /\ camera = Constructed(rev).camera
    /\ currentEffect = Constructed(rev).currentEffect
    /\ heap = Constructed(rev).heap
    /\ timers = {}
    /\ \E tone \in TestBuffers :
           audio = startAudio_granted(startAudio(AudioInit), 1, tone)
    /\ frames = Constructed(rev).requested
    /\ view = NewView(1920, 1080)
    /\ inputs = 0
    /\ lastCall = [op |-> "audioGranted", mode |-> "", threw |-> FALSE,
                   fault |-> FALSE, prev |-> currentEffect, log |-> <<>>]

\* The frames of that page, the user leaving it alone.
NextBands == Animate

SpecBands == InitBands /\ [][NextBands]_vars

(***************************************************************************)
(* A fireworks show: the page left in fireworks mode for ShowFrames        *)
(* frames (ShowFramesEarly in revision A, whose particles fade sooner),    *)
(* long enough for rockets to explode and for bursts to fade.              *)
(***************************************************************************)
ShowFrames == 230

ShowFramesEarly == 80

MaxShowRockets == 5

MaxShowBursts == 4

MaxShowParticles == 2

\* The spectra of a show: silence, and a steady bass.
ShowTones == {Silence, [Silence EXCEPT !.low = 255]}

WithinShow(e) ==
    /\ Len(e.rockets) <= MaxShowRockets
    /\ Len(e.particles) <= (IF e.cls = "FireworksEarly" THEN MaxShowParticles
                            ELSE MaxShowBursts)
    /\ Len(e.shockwaves) <= MaxShowBursts

\* The page after a click on the fireworks button, in demo mode or with a
\* capture granted.
InitShow ==
    /\ rev \in Revisions
    /\ now = PageLoadMs
    /\ \E m \in {switchMode(rev, [scene |-> Constructed(rev).scene,
                                   camera |-> Constructed(rev).camera,
                                   currentEffect |-> Constructed(rev).currentEffect,
                                   heap |-> Constructed(rev).heap],
                             "fireworks", 0)} :
           /\ scene = m.scene
           /\ camera = m.camera
           /\ currentEffect = m.currentEffect
           /\ heap = m.heap
           /\ lastCall = [op |-> "switchMode", mode |-> "fireworks",
                          threw |-> m.threw, fault |-> m.fault, prev |-> 1,
                          log |-> m.log]
    /\ timers = {}
    /\ \/ audio = AudioInit
       \/ \E tone \in ShowTones :
              audio = startAudio_granted(startAudio(AudioInit), 1, tone)
    /\ frames = Constructed(rev).requested
    /\ view = NewView(1920, 1080)
    /\ inputs = 0

\* The animation-frame callback during the show.
AnimateShow ==
    /\ frames > 0
    /\ now < PageLoadMs + (IF rev = "A" THEN ShowFramesEarly ELSE ShowFrames) * FrameMs
    /\ \E buf \in FrameBuffers(audio) :
         \E rnd \in RandomOutcomes(heap[currentEffect].cls) :
           \E m \in {animate(Manager, audio, now + FrameMs, buf, rnd)} :
               /\ WithinShow(m.heap[currentEffect])
               /\ now' = now + FrameMs
               /\ scene' = m.scene
               /\ heap' = m.heap
               /\ timers' = timers \cup m.timeouts
               /\ frames' = (frames - 1) + m.requested
               /\ inputs' = 0
               /\ lastCall' = [op |-> "animate", mode |-> "", threw |-> FALSE,
                               fault |-> FALSE, prev |-> currentEffect, log |-> m.log]
    /\ UNCHANGED <<rev, camera, currentEffect, audio, view>>

NextShow ==
    \/ AnimateShow
    \/ Timeout

SpecShow == InitShow /\ [][NextShow]_vars

(***************************************************************************)
(* A storm: the page left in lightning mode for StormFrames frames, the    *)
(* draws of the mini bolts (bands 0 and 8) being coins as well.            *)
(***************************************************************************)
StormFrames == 12

MaxStormBolts == 3

\* The spectra of a storm: all bins full, and all but the bass.
StormTones == {[Silence EXCEPT !.low = 255, !.mid = 255, !.high = 255],
               [Silence EXCEPT !.mid = 255, !.high = 255]}

StormOutcomes ==
    {[NoDraw EXCEPT !.c1 = c1, !.c2 = c2, !.c3 = c3, !.b = b] :
        c1 \in BOOLEAN, c2 \in BOOLEAN, c3 \in BOOLEAN, b \in {0, 1}}

InitStorm ==
    /\ rev \in {r \in Revisions : "lightning" \in Modes(r)}
    /\ now = PageLoadMs
    /\ \E m \in {switchMode(rev, [scene |-> Constructed(rev).scene,
                                   camera |-> Constructed(rev).camera,
                                   currentEffect |-> Constructed(rev).currentEffect,
                                   heap |-> Constructed(rev).heap],
                             "lightning", 0)} :
           /\ scene = m.scene
           /\ camera = m.camera
           /\ currentEffect = m.currentEffect
           /\ heap = m.heap
           /\ lastCall = [op |-> "switchMode", mode |-> "lightning",
                          threw |-> m.threw, fault |-> m.fault, prev |-> 1,
                          log |-> m.log]
    /\ timers = {}
    /\ \/ audio = AudioInit
       \/ \E tone \in StormTones :
              audio = startAudio_granted(startAudio(AudioInit), 1, tone)
    /\ frames = Constructed(rev).requested
    /\ view = NewView(1920, 1080)
    /\ inputs = 0

\* The animation-frame callback during the storm.
AnimateStorm ==
    /\ frames > 0
    /\ now < PageLoadMs + StormFrames * FrameMs
    /\ \E buf \in FrameBuffers(audio) :
         \E rnd \in StormOutcomes :
           \E m \in {animate(Manager, audio, now + FrameMs, buf, rnd)} :
               /\ Len(m.heap[currentEffect].bolts) <= MaxStormBolts
               /\ now' = now + FrameMs
               /\ scene' = m.scene
               /\ heap' = m.heap
               /\ timers' = timers \cup m.timeouts
               /\ frames' = (frames - 1) + m.requested
               /\ inputs' = 0
               /\ lastCall' = [op |-> "animate", mode |-> "", threw |-> FALSE,
                               fault |-> FALSE, prev |-> currentEffect, log |-> m.log]
    /\ UNCHANGED <<rev, camera, currentEffect, audio, view>>

NextStorm == AnimateStorm

SpecStorm == InitStorm /\ [][NextStorm]_vars

(***************************************************************************)
(* A starry night: revision B left in cosmic or multiverse mode for        *)
(* StarFrames frames.  The spawn draw of the shooting stars is a coin in   *)
(* every StarEvery-th frame and fails in the others.                       *)
(***************************************************************************)
StarFrames == 75

StarEvery == 7

StarOutcomes(frame) ==
    {[NoDraw EXCEPT !.c4 = c4, !.u2 = u2] :
        c4 \in (IF (frame - 1) % StarEvery = 0 THEN BOOLEAN ELSE {FALSE}),
        u2 \in RandLevels}

InitStars ==
    /\ rev = "B"
    /\ now = PageLoadMs
    /\ \E mode \in {"cosmic", "multiverse"} :
         \E m \in {switchMode(rev, [scene |-> Constructed(rev).scene,
                                    camera |-> Constructed(rev).camera,
                                    currentEffect |-> Constructed(rev).currentEffect,
                                    heap |-> Constructed(rev).heap],
                              mode, 0)} :
           /\ scene = m.scene
           /\ camera = m.camera
           /\ currentEffect = m.currentEffect
           /\ heap = m.heap
           /\ lastCall = [op |-> "switchMode", mode |-> mode,
                          threw |-> m.threw, fault |-> m.fault, prev |-> 1,
                          log |-> m.log]
    /\ timers = {}
    /\ \/ audio = AudioInit
       \/ audio = startAudio_granted(startAudio(AudioInit), 1, Silence)
    /\ frames = Constructed(rev).requested
    /\ view = NewView(1920, 1080)
    /\ inputs = 0

\* The animation-frame callback during the night.
AnimateStars ==
    /\ frames > 0
    /\ now < PageLoadMs + StarFrames * FrameMs
    /\ \E buf \in FrameBuffers(audio) :
         \E rnd \in StarOutcomes((now + FrameMs - PageLoadMs) \div FrameMs) :
           \E m \in {animate(Manager, audio, now + FrameMs, buf, rnd)} :
               /\ now' = now + FrameMs
               /\ scene' = m.scene
               /\ heap' = m.heap
               /\ timers' = timers \cup m.timeouts
               /\ frames' = (frames - 1) + m.requested
               /\ inputs' = 0
               /\ lastCall' = [op |-> "animate", mode |-> "", threw |-> FALSE,
                               fault |-> FALSE, prev |-> currentEffect, log |-> m.log]
    /\ UNCHANGED <<rev, camera, currentEffect, audio, view>>

NextStars == AnimateStars

SpecStars == InitStars /\ [][NextStars]_vars

(***************************************************************************)
(* Properties.  lastCall records the handler that ran last: its name, the  *)
(* mode token, whether an exception left it (threw), whether dispose()     *)
(* threw inside it (fault), the Effect that was current when it started    *)
(* (prev) and the calls it made, in order (log).                           *)
(***************************************************************************)
Instances == 1..Len(heap)

\* The calls named ev that the last handler made.
Calls(ev) == {k \in 1..Len(lastCall.log) : lastCall.log[k].ev = ev}

\* C1: after dispose() an instance holds no unreleased resource that its
\* update calls allocated (bursts, shockwaves, bolts, Multiverse fireworks).
C1_DisposeReleasesUpdateAllocated ==
    (lastCall.op = "switchMode" /\ lastCall.prev # Null)
        => \A r \in heap[lastCall.prev].live : r[2] = 0

\* C2: when dispose() is called on an instance that has had no update, every
\* geometry, material and texture that its init allocated is released.
C2_DisposeReleasesInitAllocated ==
    (/\ lastCall.op = "switchMode"
     /\ lastCall.prev # Null
     /\ heap[lastCall.prev].updates = 0)
        => heap[lastCall.prev].live = {}

\* C3: a switchMode call made while an Effect is current calls that Effect's
\* dispose() first, then the constructor of the next Effect, and leaves a
\* freshly constructed instance as the current Effect.
C3_DisposeThenFreshInstance ==
    (lastCall.op = "switchMode" /\ lastCall.prev # Null)
        => /\ lastCall.log = <<Ev("dispose", lastCall.prev),
                               Ev("construct", currentEffect)>>
           /\ currentEffect # lastCall.prev
           /\ currentEffect = Len(heap)
           /\ heap[currentEffect].disposeCalls = 0
           /\ heap[currentEffect].updates = 0

\* C4: at every frame exactly one Effect is live: the current Effect exists,
\* is not disposed, and its group is the only child of the scene root.
C4_ExactlyOneLiveEffect ==
    lastCall.op = "animate"
        => /\ currentEffect # Null
           /\ heap[currentEffect].disposeCalls = 0
           /\ scene.children = {currentEffect}
           /\ \A i \in Instances \ {currentEffect} : heap[i].disposeCalls > 0

\* C5: Disposed is terminal: no handler calls update() or dispose() on an
\* instance whose dispose() has been called before.
C5_DisposedIsTerminal ==
    [][\A k \in 1..Len(lastCall'.log) :
          lastCall'.log[k].ev \in {"update", "dispose"}
              => heap[lastCall'.log[k].inst].disposeCalls = 0]_vars

\* C6: switchMode with a token that names no Effect variant changes nothing:
\* no Effect is constructed, and the current Effect, every instance, the
\* scene (children and fog) and the camera pose are as before the call.
C6_UnknownTokenIsNoOp ==
    [][(lastCall'.op = "switchMode" /\ lastCall'.mode \notin Modes(rev))
          => /\ heap' = heap
             /\ currentEffect' = currentEffect
             /\ scene' = scene
             /\ camera' = camera]_vars

\* C7: after a switchMode call with a recognised token, the group of the new
\* Effect is the only child of the scene root, as many children as after
\* constructing that Effect in an empty scene: no node of an earlier Effect,
\* made by its init or by its update, is reachable from the root.
C7_SwitchDetachesPrevious ==
    (lastCall.op = "switchMode" /\ lastCall.mode \in Modes(rev) /\ ~lastCall.threw)
        => /\ currentEffect = Len(heap)
           /\ \A i \in Instances \ {currentEffect} : i \notin scene.children
           /\ currentEffect \in scene.children
           /\ Cardinality(scene.children)
                = Cardinality(Construct(ClassOf(rev, lastCall.mode), currentEffect,
                                        EmptyScene).scene.children)

\* A third Effect has just replaced a second one that had been updated and
\* whose group still holds a node made by its update.
C7_Witness ==
    /\ lastCall.op = "switchMode"
    /\ lastCall.mode \in Modes(rev)
    /\ lastCall.prev = 2
    /\ currentEffect = 3
    /\ heap[2].updates > 0
    /\ \E r \in heap[2].children : r[2] > 0

\* C8: when dispose() throws inside switchMode, the error is logged, no
\* exception leaves switchMode, the camera is set for the requested mode and
\* a new Effect of that mode is the current one.
C8_DisposeErrorSwallowed ==
    (lastCall.op = "switchMode" /\ lastCall.fault)
        => /\ ~lastCall.threw
           /\ Calls("console.error") # {}
           /\ lastCall.mode \in Modes(rev)
                => /\ currentEffect = Len(heap)
                   /\ currentEffect # lastCall.prev
                   /\ heap[currentEffect].cls = ClassOf(rev, lastCall.mode)
                   /\ camera = CameraOf(lastCall.mode)

\* C9: a frame's update call leaves the transform of the scene root, the
\* fog, the camera and every instance other than the current one unchanged.
C9_UpdateMutatesOwnStateOnly ==
    [][lastCall'.op = "animate"
          => /\ scene'.rotY = scene.rotY
             /\ scene'.rotZ = scene.rotZ
             /\ scene'.fog = scene.fog
             /\ camera' = camera
             /\ \A i \in Instances \ {currentEffect} : heap'[i] = heap[i]]_vars

\* C10: no callback scheduled by an Effect runs, and touches its nodes,
\* once that Effect has been disposed and replaced as the current Effect.
C10_NoCallbackAfterDispose ==
    lastCall.op = "timeout"
        => \A k \in Calls("group.remove") :
               lastCall.log[k].inst # currentEffect
                   => heap[lastCall.log[k].inst].disposeCalls = 0

\* The calls the last handler made, the request for the next frame and the
\* analyser read inside getAudioData left out.
FrameCalls ==
    SelectSeq(lastCall.log,
              LAMBDA c : c.ev \in {"getAudioData", "update", "render"})

\* C11: every animation frame makes, in this order, exactly one
\* getAudioData call with the frame's time, exactly one update call on the
\* current Effect with that time and the bands getAudioData returned, and
\* exactly one render pass.
C11_FrameSamplesUpdatesRenders ==
    lastCall.op = "animate"
        => /\ Len(FrameCalls) = 3
           /\ FrameCalls[1].ev = "getAudioData"
           /\ FrameCalls[1].time = now
           /\ \E buf \in FrameBuffers(audio) :
                  FrameCalls[1].bands = getAudioData(audio, now, buf)
           /\ FrameCalls[2].ev = "update"
           /\ FrameCalls[2].inst = currentEffect
           /\ FrameCalls[2].time = now
           /\ FrameCalls[2].bands = FrameCalls[1].bands
           /\ heap[currentEffect].uTime = now
           /\ FrameCalls[3].ev = "render"

\* A frame of the second Effect, updated before, with bands read from the
\* analyser of a capture that plays a tone.
C11_Witness ==
    /\ lastCall.op = "animate"
    /\ currentEffect = 2
    /\ now > PageLoadMs + FrameMs
    /\ IsCapturing(audio)
    /\ Len(FrameCalls) = 3
    /\ FrameCalls[2].bands.high > 0

\* C12: from the end of the constructor on, exactly one animation-frame
\* callback is pending whenever a handler has returned, whatever handlers
\* ran before, and a frame ends with its render pass: the loop neither
\* stops nor multiplies, and no frame starts inside another.
C12_OneFramePending ==
    /\ frames = 1
    /\ lastCall.op = "animate"
          => lastCall.log[Len(lastCall.log)].ev = "render"

\* A frame after a mode switch, a resize and a capture request that is
\* still pending.
C12_Witness ==
    /\ lastCall.op = "animate"
    /\ frames = 1
    /\ currentEffect = 2
    /\ view.width = 800
    /\ audio.pending # {}

\* The sum of dataArray[i] over lo <= i < hi, bin by bin.
RECURSIVE BinSum(_, _, _)
BinSum(buf, lo, hi) ==
    IF hi <= lo THEN 0
    ELSE IF hi = lo + 1 THEN ByteAt(buf, lo)
    ELSE LET half == (lo + hi) \div 2
         IN  BinSum(buf, lo, half) + BinSum(buf, half, hi)

\* The band bounds floor(0.1 N) and floor(0.5 N) for N = bufferLength bins.
LowEnd == bufferLength \div 10

MidEnd == bufferLength \div 2

\* C13: when capture is active, the bands getAudioData returns are the
\* means of the bins [0, floor(0.1N)), [floor(0.1N), floor(0.5N)) and
\* [floor(0.5N), N), each divided by 255: three contiguous non-empty ranges
\* that cover every bin once, and every band lies in [0, 1].
C13_BandsPartitionSpectrum ==
    (lastCall.op = "animate" /\ IsCapturing(audio))
        => \A buf \in FrameBuffers(audio) :
           \E b \in {FrameCalls[1].bands},
              lowSum \in {BinSum(buf, 0, LowEnd)},
              midSum \in {BinSum(buf, LowEnd, MidEnd)},
              highSum \in {BinSum(buf, MidEnd, bufferLength)} :
                 /\ 0 < LowEnd /\ LowEnd < MidEnd /\ MidEnd < bufferLength
                 /\ b.low = MeanMicro(lowSum, LowEnd)
                 /\ b.mid = MeanMicro(midSum, MidEnd - LowEnd)
                 /\ b.high = MeanMicro(highSum, bufferLength - MidEnd)
                 /\ lowSum + midSum + highSum = BinSum(buf, 0, bufferLength)
                 /\ \A x \in {b.low, b.mid, b.high} : 0 <= x /\ x <= 1000000

\* A frame whose spectrum changes level inside the mid band and inside the
\* high band, so that the three bands differ.
C13_Witness ==
    /\ lastCall.op = "animate"
    /\ IsCapturing(audio)
    /\ audio.tone.cut1 = 103
    /\ audio.tone.cut2 = 700
    /\ audio.tone.low = 255
    /\ audio.tone.mid = 128
    /\ audio.tone.high = 0
    /\ FrameCalls[1].bands.low = 1000000
    /\ FrameCalls[1].bands.mid > FrameCalls[1].bands.high
    /\ FrameCalls[1].bands.high > 0

\* C14: a frame's getAudioData reads the analyser if and only if some
\* capture request has been granted before; otherwise (no startAudio call,
\* requests pending, every request rejected) it returns the demo signal of
\* its time; and isAudioActive is set only once a source is connected and
\* dataArray allocated.
C14_CaptureIffGranted ==
    /\ audio.isAudioActive => (audio.connected # {} /\ audio.dataArray)
    /\ lastCall.op = "animate"
          => /\ Calls("getByteFrequencyData") # {} <=> audio.connected # {}
             /\ audio.connected = {}
                   => FrameCalls[1].bands = getAudioData(AudioInit, now, Silence)

\* A frame that reads the analyser after the first request was rejected and
\* the second one granted.
C14_Witness ==
    /\ lastCall.op = "animate"
    /\ audio.calls = 2
    /\ audio.pending = {}
    /\ audio.connected = {<<2, 2>>}
    /\ Calls("getByteFrequencyData") # {}

\* C15: while the last capture request to resolve was rejected, every
\* frame's getAudioData returns the demo signal of its time and does not
\* read the analyser, whatever startAudio calls came before.
C15_RejectionFallsBackToDemo ==
    (lastCall.op = "animate" /\ audio.outcome = "rejected")
        => /\ Calls("getByteFrequencyData") = {}
           /\ FrameCalls[1].bands = getAudioData(AudioInit, now, Silence)

\* C16: a switchMode call made while a capture request is pending leaves
\* the audio state and the request as they are and disposes the previous
\* Effect before it returns; and when a request is granted the analyser
\* becomes active (source connected to the analyser in use, dataArray
\* allocated, isAudioActive set) with the manager left as it is.
C16_SwitchLeavesCaptureAlone ==
    [][/\ (lastCall'.op = "switchMode" /\ audio.pending # {})
            => /\ audio' = audio
               /\ lastCall'.prev # Null
               /\ lastCall'.log[1] = Ev("dispose", lastCall'.prev)
               /\ lastCall'.prev \notin scene'.children
       /\ lastCall'.op = "audioGranted"
            => /\ \E q \in audio.pending :
                    /\ audio'.pending = audio.pending \ {q}
                    /\ audio'.connected
                         = audio.connected \cup {<<q, audio.analyser>>}
               /\ audio'.analyser = audio.analyser
               /\ audio'.dataArray
               /\ audio'.isAudioActive
               /\ <<scene', camera', currentEffect', heap'>>
                    = <<scene, camera, currentEffect, heap>>]_vars

\* A switchMode call that has replaced an Effect updated before while a
\* capture request is pending.
C16_Witness ==
    /\ lastCall.op = "switchMode"
    /\ audio.pending # {}
    /\ lastCall.prev # Null
    /\ heap[lastCall.prev].updates > 0
    /\ heap[lastCall.prev].disposeCalls > 0
    /\ currentEffect # lastCall.prev

\* The tokens of the mode selector and the Effect variant each one names.
SelectorTokens ==
    {"cosmic", "wave", "fireworks", "lightning", "reactor", "multiverse",
     "dancer"}

VariantOf(token) ==
    CASE token = "cosmic" -> {"CosmicEffect", "CosmicGalaxy"}
      [] token = "wave" -> {"WaveEffect"}
      [] token = "fireworks" -> {"FireworksEarly", "FireworksEffect"}
      [] token = "lightning" -> {"LightningStormEffect"}
      [] token = "reactor" -> {"AudioReactorEffect"}
      [] token = "multiverse" -> {"MultiverseEffect"}
      [] token = "dancer" -> {"DancerEffect"}

\* C17: after switchMode(token), for each token of the selector, the
\* current Effect is a new, live instance of the variant the token names,
\* and no variant is named by two tokens.
C17_TokenSelectsItsVariant ==
    (lastCall.op = "switchMode" /\ lastCall.mode \in SelectorTokens)
        => /\ currentEffect = Len(heap)
           /\ currentEffect # lastCall.prev
           /\ heap[currentEffect].disposeCalls = 0
           /\ heap[currentEffect].cls \in VariantOf(lastCall.mode)
           /\ \A t1, t2 \in SelectorTokens :
                  t1 # t2 => VariantOf(t1) \cap VariantOf(t2) = {}

\* The fog of each mode: the one its switch case or its Effect's init sets.
FogOf(mode) ==
    CASE mode = "cosmic" -> CosmicFog
      [] mode = "lightning" -> StormFog
      [] OTHER -> NoFog

\* C18: after switchMode(m) for a recognised mode m, the camera position
\* and look-at target and the scene fog are the defaults of m, whichever
\* Effect was current before and whatever fog it had set.
C18_SwitchSetsPoseAndFog ==
    (lastCall.op = "switchMode" /\ lastCall.mode \in Modes(rev))
        => /\ ~lastCall.threw
           /\ camera = CameraOf(lastCall.mode)
           /\ scene.fog = FogOf(lastCall.mode)

\* The storm, updated before, has just been replaced by a mode that has no
\* fog and the default camera pose.
C18_Witness ==
    /\ lastCall.op = "switchMode"
    /\ lastCall.mode = "light"
    /\ lastCall.prev # Null
    /\ heap[lastCall.prev].cls = "LightningStormEffect"
    /\ heap[lastCall.prev].updates > 0
    /\ camera = DefaultCamera
    /\ scene.fog = NoFog

\* C19: after onResize the camera aspect is width / height of the window
\* (800/600 for a window of 800 x 600) and the renderer and the composer
\* have the window's size; a second call with the same window changes
\* nothing; and the scene, the camera pose, the current Effect and every
\* instance are as before the call, whichever Effect is current.
C19_ResizeIdempotent ==
    [][lastCall'.op = "onResize"
          => /\ view'.aspect = Aspect(view'.width, view'.height)
             /\ (view'.width = 800 /\ view'.height = 600)
                   => view'.aspect = (800 * 1000000) \div 600
             /\ view'.renderer = <<view'.width, view'.height>>
             /\ view'.composer = <<view'.width, view'.height>>
             /\ onResize(view') = view'
             /\ <<scene', camera', currentEffect', heap', audio', frames'>>
                  = <<scene, camera, currentEffect, heap, audio, frames>>]_vars

\* The window has gone from 1920 x 1080 to 800 x 600 while the storm, which
\* has been updated, is the current Effect.
C19_Witness ==
    /\ lastCall.op = "onResize"
    /\ view.width = 800
    /\ view.height = 600
    /\ view.composer = <<800, 600>>
    /\ heap[currentEffect].cls = "LightningStormEffect"
    /\ heap[currentEffect].updates > 0

\* C20: while capture has never been active, the bands a frame's
\* getAudioData returns are those of the page just loaded for the same
\* time: they depend on the time alone, whatever handlers ran before, and
\* the call neither reads the analyser nor writes the audio state.
C20_DemoDependsOnTimeOnly ==
    [][(lastCall'.op = "animate" /\ ~audio.isAudioActive)
          => /\ FrameCalls'[1].time = now'
             /\ FrameCalls'[1].bands = getAudioData(AudioInit, now', Silence)
             /\ \A k \in 1..Len(lastCall'.log) :
                    lastCall'.log[k].ev # "getByteFrequencyData"
             /\ audio' = audio]_vars

\* A demo frame of a second Effect while a capture request is pending: an
\* analyser exists, and capture is not active.
C20_Witness ==
    /\ lastCall.op = "animate"
    /\ ~audio.isAudioActive
    /\ audio.analyser # 0
    /\ audio.pending # {}
    /\ currentEffect = 2
    /\ heap[2].updates > 0
    /\ FrameCalls[1].bands.low > 0

\* The capture sources connected to the analyser that getAudioData reads.
Feeding == {c[1] : c \in {d \in audio.connected : d[2] = audio.analyser}}

\* C21: once every capture request has settled, at most one source is
\* connected to the analyser that getAudioData reads, and it is the source
\* of the startAudio call issued last, for any interleaving of the calls
\* and their outcomes.
C21_OneSourceOfLastCall ==
    (audio.calls > 0 /\ audio.pending = {})
        => /\ Cardinality(Feeding) <= 1
           /\ \A q \in Feeding : q = audio.calls

\* The analyzer state startAudio works on.
AnalyzerState(a) == <<a.audioContext, a.analyser, a.dataArray, a.isAudioActive>>

\* C22: a startAudio call whose request is rejected leaves the analyzer
\* state as it was before the call.  A first call that is rejected leaves
\* the initial state; a call that is rejected after call 1 was granted
\* (its source sits on analyser 1) leaves the state of that grant, with the
\* source of call 1 still feeding the analyser getAudioData reads.
C22_RejectionRestoresState ==
    /\ (audio.calls = 1 /\ audio.outcome = "rejected")
          => AnalyzerState(audio) = AnalyzerState(AudioInit)
    /\ (audio.calls = 2 /\ audio.pending = {} /\ audio.outcome = "rejected"
          /\ <<1, 1>> \in audio.connected)
          => /\ AnalyzerState(audio)
                  = AnalyzerState(startAudio_granted(startAudio(AudioInit), 1, Silence))
             /\ Feeding = {1}

\* The fireworks instances, and the alpha of a particle: the field alpha in
\* revision A, the opacity 1 - age/lifespan of a burst in revisions B and C.
Fireworks == {i \in Instances : heap[i].cls \in {"FireworksEffect", "FireworksEarly"}}

Alpha(p) == IF "alpha" \in DOMAIN p THEN p.alpha ELSE BurstOpacity(p)

SameParticle(p, q) ==
    IF "alpha" \in DOMAIN p
    THEN "alpha" \in DOMAIN q /\ p.born = q.born /\ p.decay = q.decay
    ELSE "id" \in DOMAIN q /\ p.id = q.id

C24_BurstOpacityIsItsOwn ==
    \A i \in Fireworks :
        heap[i].cls = "FireworksEffect"
            => \A k \in 1..Len(heap[i].particles) :
                   heap[i].particles[k].age > 0
                       => heap[i].opacity[heap[i].particles[k].type]
                              = BurstOpacity(heap[i].particles[k])

\* A rocket after one update, and the rockets that reach their target in
\* the next update.
Risen(r) == [r EXCEPT !.y = @ + r.vy]

Exploding(rockets) == {k \in 1..Len(rockets) : Risen(rockets[k]).y >= rockets[k].targetY}

\* The bursts an update created: a burst is one update old in revisions B
\* and C; in revision A it is the BurstParticles particles of one explode().
NewBursts(e, t) ==
    IF e.cls = "FireworksEarly"
    THEN {k \in 1..Len(e.particles) :
             e.particles[k].born = t /\ e.particles[k].gravity > 0}
    ELSE {k \in 1..Len(e.particles) : e.particles[k].age = 16}

BurstHeight(e, k) ==
    IF e.cls = "FireworksEarly" THEN e.particles[k].y \div 10 ELSE e.particles[k].y

\* C25: a rocket in flight is below its target and rises by its constant
\* positive velocity in each update; in the first update in which it
\* reaches its target it leaves the in-flight list and exactly one burst is
\* created at its position.  A rocket therefore explodes once, after a
\* bounded number of updates.
C25_RocketsRiseAndExplodeOnce ==
    [][lastCall'.op = "animate" =>
         \A i \in Fireworks \cap {currentEffect} :
             /\ \A k \in 1..Len(heap[i].rockets) :
                    /\ heap[i].rockets[k].vy > 0
                    /\ heap[i].rockets[k].y < heap[i].rockets[k].targetY
                    /\ (k \in Exploding(heap[i].rockets))
                         <=> ~\E j \in 1..Len(heap'[i].rockets) :
                                 heap'[i].rockets[j] = Risen(heap[i].rockets[k])
                    /\ (k \in Exploding(heap[i].rockets))
                         => \E b \in NewBursts(heap'[i], now') :
                                BurstHeight(heap'[i], b) = Risen(heap[i].rockets[k]).y
             /\ \A j \in 1..Len(heap'[i].rockets) :
                    \/ \E k \in 1..Len(heap[i].rockets) :
                           heap'[i].rockets[j] = Risen(heap[i].rockets[k])
                    \/ /\ j = Len(heap'[i].rockets)
                       /\ heap'[i].rockets[j].y = -500 + heap'[i].rockets[j].vy
             /\ Cardinality(NewBursts(heap'[i], now'))
                    = Cardinality(Exploding(heap[i].rockets))
                      * (IF heap[i].cls = "FireworksEarly" THEN BurstParticles ELSE 1)
    ]_vars

\* A rocket has just exploded while another is in flight.
C25_Witness ==
    /\ lastCall.op = "animate"
    /\ \E i \in Fireworks \cap {currentEffect} :
           /\ heap[i].cls = "FireworksEffect"
           /\ NewBursts(heap[i], now) # {}
           /\ heap[i].rockets # <<>>

\* The rockets an update launched: they have risen once from y = -5.
Launched(e) == {k \in 1..Len(e.rockets) : e.rockets[k].y = -500 + e.rockets[k].vy}

Cooldown(e) == IF e.cls = "FireworksEarly" THEN 150 ELSE 100

\* C26: an update of the fireworks launches at most one rocket, only when
\* more than the cooldown has passed on the clock since the last launch,
\* and a launch sets the last-launch time to the clock; without a launch
\* that time is left alone.
C26_LaunchesRespectCooldown ==
    [][lastCall'.op = "animate" =>
         \A i \in Fireworks \cap {currentEffect} :
             /\ Cardinality(Launched(heap'[i])) <= 1
             /\ Launched(heap'[i]) # {}
                    => /\ now' - heap[i].lastTime > Cooldown(heap[i])
                       /\ heap'[i].lastTime = now'
             /\ Launched(heap'[i]) = {} => heap'[i].lastTime = heap[i].lastTime
    ]_vars

\* A rocket was launched in this frame under a steady bass, two others
\* being in flight.
C26_Witness ==
    /\ lastCall.op = "animate"
    /\ audio.isAudioActive /\ audio.tone.low = 255
    /\ \E i \in Fireworks \cap {currentEffect} :
           /\ Launched(heap[i]) # {}
           /\ Len(heap[i].rockets) >= 3

\* The lightning storm on screen.
Storms == {i \in Instances \cap {currentEffect} : heap[i].cls = "LightningStormEffect"}

\* The bolts an update created: their life was decremented once.
NewBolts(e) == {k \in 1..Len(e.bolts) : e.bolts[k].life = 1000000 - e.bolts[k].decay}

\* C27: every bolt (main strike, mini bolt, branch; none deeper than level
\* 2) loses a fixed part, at least a tenth, of its life in each update and,
\* in the update in which its life is spent, is detached from the group
\* with its geometry and material released: a bolt lives at most 10
\* updates.  Main strikes are more than 150 ms apart.
C27_BoltsAreShortLived ==
    [][lastCall'.op = "animate" =>
         \A i \in Storms :
             /\ \A k \in 1..Len(heap[i].bolts) :
                    LET b == heap[i].bolts[k]
                    IN  /\ b.level \in 0..2
                        /\ b.decay >= 100000
                        /\ b.life > 0 /\ b.life <= 1000000
                        /\ IF b.life - b.decay <= 0
                           THEN /\ \A j \in 1..Len(heap'[i].bolts) :
                                       heap'[i].bolts[j].id # b.id
                                /\ <<"bolts.mesh", b.id>> \notin heap'[i].children
                                /\ <<"bolts.mesh.geometry", b.id>> \notin heap'[i].live
                                /\ <<"bolts.mesh.material", b.id>> \notin heap'[i].live
                           ELSE \E j \in 1..Len(heap'[i].bolts) :
                                    heap'[i].bolts[j] = [b EXCEPT !.life = @ - b.decay]
             /\ \A j \in NewBolts(heap'[i]) : heap'[i].bolts[j].level \in 0..2
             /\ (\E j \in NewBolts(heap'[i]) : heap'[i].bolts[j].level = 0)
                    <=> heap'[i].lastTime # heap[i].lastTime
             /\ heap'[i].lastTime # heap[i].lastTime
                    => /\ now' - heap[i].lastTime > 150
                       /\ heap'[i].lastTime = now'
    ]_vars

\* A mini bolt has been released (its id, the least one, is free) while a
\* later mini bolt and its branch are live, after a main strike.
C27_Witness ==
    /\ lastCall.op = "animate"
    /\ \E i \in Storms :
           /\ heap[i].lastTime > 0
           /\ {heap[i].bolts[k].level : k \in 1..Len(heap[i].bolts)} = {1, 2}
           /\ <<"bolts.mesh", 1>> \notin heap[i].children

\* The bins [from, to) of the three bands of getAudioData.
getAudioData_ranges ==
    [low  |-> <<0, bufferLength \div 10>>,
     mid  |-> <<bufferLength \div 10, bufferLength \div 2>>,
     high |-> <<bufferLength \div 2, bufferLength>>]

\* C28: in a frame read from the analyser, the bass, mid and high that
\* LightningStormEffect.update computes from the frequency buffer equal
\* the low, mid and high that getAudioData computed from it in this frame:
\* the same bins, each bin in one band, and every value in [0, 1].
C28_StormBandsEqualAudioBands ==
    (lastCall.op = "animate" /\ IsCapturing(audio) /\ audio.dataArray)
        => \A i \in Storms :
               /\ LightningStormEffect_ranges.bass = getAudioData_ranges.low
               /\ LightningStormEffect_ranges.mid = getAudioData_ranges.mid
               /\ LightningStormEffect_ranges.high = getAudioData_ranges.high
               /\ heap[i].bands.bass = FrameCalls[1].bands.low
               /\ heap[i].bands.mid = FrameCalls[1].bands.mid
               /\ heap[i].bands.high = FrameCalls[1].bands.high
               /\ \A b \in {"bass", "mid", "high"} :
                      heap[i].bands[b] \in 0..1000000

\* The scene root after switchMode(mode) on a freshly constructed manager.
FreshScene(mode) ==
    switchMode(rev, [scene |-> Constructed(rev).scene,
                     camera |-> Constructed(rev).camera,
                     currentEffect |-> Constructed(rev).currentEffect,
                     heap |-> Constructed(rev).heap],
               mode, 0).scene

\* C29: after switchMode(B) the scene root (its rotation, its fog, the
\* number of its children) is as after switchMode(B) on a freshly
\* constructed manager, whatever Effect was active before and however many
\* frames it ran.
C29_SceneForgetsPreviousEffect ==
    (lastCall.op = "switchMode" /\ lastCall.mode \in Modes(rev) /\ ~lastCall.threw)
        => /\ scene.rotY = FreshScene(lastCall.mode).rotY
           /\ scene.rotZ = FreshScene(lastCall.mode).rotZ
           /\ scene.fog = FreshScene(lastCall.mode).fog
           /\ Cardinality(scene.children)
                  = Cardinality(FreshScene(lastCall.mode).children)

\* The instance on screen when it has a shooting-star pool.
StarFields == {i \in Instances \cap {currentEffect} : PoolSize(heap[i].cls) > 0}

Activated(i) ==
    {k \in 1..Len(heap[i].shootingStars) :
        ~heap[i].shootingStars[k].active /\ heap'[i].shootingStars[k].active}

\* C30: the shooting-star pool keeps its size (8 in CosmicEffect, 10 in
\* MultiverseEffect); after an update a star is visible iff it is active;
\* an update activates at most one star, an inactive one, and leaves the
\* flying stars alone; an active star advances by its speed, at least
\* 0.005, and is inactive once its progress reaches 1, so after at most
\* 200 updates.
C30_ShootingStarPool ==
    [][lastCall'.op = "animate" =>
         \A i \in StarFields :
             /\ Len(heap'[i].shootingStars) = Len(heap[i].shootingStars)
             /\ Len(heap[i].shootingStars)
                    = (IF heap[i].cls = "MultiverseEffect" THEN 10 ELSE 8)
             /\ Cardinality(Activated(i)) <= 1
             /\ \A k \in 1..Len(heap[i].shootingStars) :
                    LET star == heap[i].shootingStars[k]
                        next == heap'[i].shootingStars[k]
                    IN  /\ next.visible <=> next.active
                        /\ next.active => next.progress < 1000000
                        /\ k \in Activated(i) => next.progress = next.speed
                        /\ star.active
                             => /\ star.speed >= 5000
                                /\ next.speed = star.speed
                                /\ next.progress = star.progress + star.speed
                                /\ next.active <=> next.progress < 1000000
                        /\ (~star.active /\ k \notin Activated(i)) => next = star
    ]_vars

\* The ten stars of a MultiverseEffect pool were all in flight, and the
\* first has landed while the others still fly.
C30_Witness ==
    /\ lastCall.op = "animate"
    /\ \E i \in StarFields :
           /\ heap[i].cls = "MultiverseEffect"
           /\ ~heap[i].shootingStars[1].active
           /\ heap[i].shootingStars[1].progress >= 1000000
           /\ \A k \in 2..10 : heap[i].shootingStars[k].active

====
